---- MODULE Spec2Model ----
(***************************************************************************)
(* IssueChrono: a model of the GanttChart component (the first GanttChart  *)
(* of src/unnamed/part_003), its TaskModal (src/unnamed/part_004) and the  *)
(* backend proxy route that serves its updates (src/unnamed/part_000).     *)
(*                                                                         *)
(* Three specifications share the variables:                               *)
(*   Spec        edit reconciliation and auto-refresh (requests in flight) *)
(*   SpecFilter  the filteredTasks computation as a pure function          *)
(*   SpecScroll  scroll state, layout recompute, hit-testing               *)
(*                                                                         *)
(* Abstractions: a label is its name (colours are not modelled) and a      *)
(* task's labels are a set; an assignee is its id.  Pixel quantities are   *)
(* integers in units of 1/100 px so that slider positions (max * v / 100)  *)
(* are exact.  Timestamps are integers in ticks, TicksPerDay per day,      *)
(* counted from 2024-01-01T00:00Z.                                         *)
(***************************************************************************)
EXTENDS Integers, Sequences, FiniteSets

VARIABLES
    tasks,                 \* useState<Task[]>          part_003:96
    selectedTask,          \* useState<Task | null>     part_003:105  (<<>> is null)
    selectedLabels,        \* part_003:251
    excludedLabels,        \* part_003:260
    statusLabels,          \* part_003:269
    selectedAssignees,     \* part_003:278
    selectedMilestones,    \* part_003:107
    showClosedIssues,      \* part_003:116
    scrollPosition,        \* part_003:99
    verticalScroll,        \* part_003:100
    maxScroll,             \* part_003:101
    maxVerticalScroll,     \* part_003:102
    horizontalSliderValue, \* part_003:103
    verticalSliderValue,   \* part_003:104
    rect,                  \* containerRef.current.getBoundingClientRect()
    resizeClosure,         \* the render whose drawChart the resize listener calls
    pendingEffects,        \* effects whose dependencies changed since the last commit
    lastEvent,             \* the event the chart handled last, with its inputs
    isUpdating,            \* part_003:125
    credentials,           \* localStorage holds gitlabUrl and token
    requests,              \* HTTP requests in flight
    remote,                \* the issues as the GitLab server holds them
    nextSeq,               \* number of requests issued so far
    once,                  \* SpecFilter: filter applied once
    twice,                 \* SpecFilter: filter applied to the result
    stage,                 \* SpecFilter, SpecDraw: how many times the function was applied
    drawn,                 \* SpecDraw: what the last drawChart call painted
    tz,                    \* offset of local time from UTC, in ticks
    now,                   \* new Date(), in ticks
    mounted,               \* the GanttChart component is mounted
    autoUpdateInterval,    \* part_003:128, in ms; NotANumber for NaN
    timers,                \* number of intervals installed by setInterval and not cleared
    effectTimer,           \* the auto-update effect's cleanup holds an intervalId
    avatarCache,           \* part_003:106, the URLs the Map holds
    avatarLoads            \* per URL, the Images created whose onload has not run

filterVars == <<selectedLabels, excludedLabels, selectedAssignees,
                selectedMilestones, showClosedIssues>>
scrollVars == <<scrollPosition, verticalScroll, maxScroll, maxVerticalScroll,
                horizontalSliderValue, verticalSliderValue>>
viewVars   == <<statusLabels, rect, resizeClosure, pendingEffects, lastEvent>>
netVars    == <<isUpdating, credentials, requests, remote, nextSeq>>
pureVars   == <<once, twice, stage, drawn>>
envVars    == <<tz, now>>
lifeVars   == <<mounted, autoUpdateInterval, timers, effectTimer, avatarCache,
                avatarLoads>>

vars == <<tasks, selectedTask, filterVars, scrollVars, viewVars, netVars,
          pureVars, envVars, lifeVars>>

-----------------------------------------------------------------------------
(* Values *)

NoEnd == 0 - 1          \* task.end === null
NoMilestone == 0        \* task.milestone === null
NoAssignee == 0         \* newAssigneeId === null

\* part_003:86-92, in milliseconds
AUTO_UPDATE_INTERVALS ==
    [OFF |-> 0, SEC_10 |-> 10000, SEC_30 |-> 30000, MIN_1 |-> 60000, MIN_5 |-> 300000]
NotANumber == 0 - 1     \* NaN, as parseInt returns it

\* An avatar URL is the id of the user it shows.
AvatarUrls == {1, 2}

LabelNames == {"bug", "wontfix"}

Max(a, b) == IF a >= b THEN a ELSE b
Min(a, b) == IF a <= b THEN a ELSE b

\* Math.floor(a / b) and Math.ceil(a / b) for b > 0
FloorDiv(a, b) == a \div b
CeilDiv(a, b) == 0 - ((0 - a) \div b)

\* A Task as the backend builds it (part_000:336-366); the fields the chart reads.
MkTask(id, name, description, start, end, labels, assignees, milestone, state) ==
    [id |-> id, projectId |-> 7, iid |-> id, name |-> name,
     description |-> description, start |-> start, end |-> end,
     labels |-> labels, assignees |-> assignees, milestone |-> milestone,
     state |-> state]

\* Units
Px == 10 * 10           \* 1 px, in the model's unit of 1/100 px
TicksPerDay == 2 * 2    \* 1 day, in the model's unit of 6 hours

\* The task lists the model draws its inputs from: task i of a project.
\* Lists are in increasing id order, which is increasing start order, as the
\* handleConnect of App.tsx:150-235 delivers them.
GenLabels(i) ==
    (IF i % 2 = 1 THEN {"bug"} ELSE {}) \cup (IF i = 1 \/ i % 16 = 6 THEN {"wontfix"} ELSE {})
GenAssignees(i) == IF i % 3 = 0 THEN {} ELSE IF i % 3 = 1 THEN {1} ELSE {1, 2}
GenMilestone(i) == (i \div 2) % 3
GenStart(i) == (4 + 3 * i) * TicksPerDay + (i % TicksPerDay)
GenEnd(i) == IF i % 3 = 0 THEN NoEnd ELSE (14 + 4 * i) * TicksPerDay
GenState(i) == IF i % 4 = 0 THEN "closed" ELSE "opened"
GenTask(i) ==
    MkTask(i, "t", "d", GenStart(i), GenEnd(i), GenLabels(i), GenAssignees(i),
           GenMilestone(i), GenState(i))
GenList(n) == [i \in 1..n |-> GenTask(i)]

\* The increasing sequences over 1..n of length at most k.
RECURSIVE IncSeqs(_, _)
IncSeqs(n, k) ==
    IF k = 0 \/ n = 0 THEN {<<>>}
    ELSE IncSeqs(n - 1, k)
         \cup {Append(s, n) : s \in IncSeqs(n - 1, k - 1)}

-----------------------------------------------------------------------------
(* Filter engine: part_003:355-384 *)

\* The callback of tasks.filter, with its early returns.
KeepTask_IncludeWins(task, sl, el, sa, sm, sc) ==
    IF ~sc /\ task.state = "closed" THEN FALSE
    ELSE LET taskLabels == task.labels
             matchesLabels == sl = {} \/ (taskLabels \cap sl) # {}
             matchesAssignees == sa = {} \/ (task.assignees \cap sa) # {}
             matchesMilestones ==
                 sm = {} \/ (task.milestone # NoMilestone /\ task.milestone \in sm)
         IN  IF sl # {} /\ (taskLabels \cap sl) # {}
             THEN matchesAssignees /\ matchesMilestones
             ELSE IF el # {} /\ (taskLabels \cap el) # {} THEN FALSE
             ELSE matchesLabels /\ matchesAssignees /\ matchesMilestones

KeepTask(task, sl, el, sa, sm, sc) ==
    IF ~sc /\ task.state = "closed" THEN FALSE
    ELSE LET taskLabels == task.labels
         IN  IF el # {} /\ (taskLabels \cap el) # {} THEN FALSE
             ELSE LET matchesLabels == sl = {} \/ (taskLabels \cap sl) # {}
                      matchesAssignees == sa = {} \/ (task.assignees \cap sa) # {}
                      matchesMilestones ==
                          sm = {} \/ (task.milestone # NoMilestone
                                      /\ task.milestone \in sm)
                  IN  matchesLabels /\ matchesAssignees /\ matchesMilestones

\* A filter that removes in place while iterating forward: the element after
\* a removed one is never examined.
RECURSIVE FilterTasks_SkipAfterRemoval(_, _, _, _, _, _)
FilterTasks_SkipAfterRemoval(ts, sl, el, sa, sm, sc) ==
    IF ts = <<>> THEN <<>>
    ELSE IF KeepTask(Head(ts), sl, el, sa, sm, sc)
         THEN <<Head(ts)>> \o FilterTasks_SkipAfterRemoval(Tail(ts), sl, el, sa, sm, sc)
         ELSE IF Tail(ts) = <<>> THEN <<>>
              ELSE <<Head(Tail(ts))>>
                   \o FilterTasks_SkipAfterRemoval(Tail(Tail(ts)), sl, el, sa, sm, sc)

\* Array.prototype.filter over the task list.
RECURSIVE FilterTasks(_, _, _, _, _, _)
FilterTasks(ts, sl, el, sa, sm, sc) ==
    IF ts = <<>> THEN <<>>
    ELSE IF KeepTask(Head(ts), sl, el, sa, sm, sc)
         THEN <<Head(ts)>> \o FilterTasks(Tail(ts), sl, el, sa, sm, sc)
         ELSE FilterTasks(Tail(ts), sl, el, sa, sm, sc)

\* The memo of the current render.
filteredTasks ==
    FilterTasks(tasks, selectedLabels, excludedLabels, selectedAssignees,
                selectedMilestones, showClosedIssues)

-----------------------------------------------------------------------------
(* Chart constants: part_003:236-246 *)

dayWidth == 7 * Px
taskHeight == 45 * Px
headerHeight == 80 * Px
avatarColumnWidth == 40 * Px
infoColumnWidth == 400 * Px

-----------------------------------------------------------------------------
(* Selection: part_003:453-473 and 1514-1523 *)

\* filteredTasks[taskIndex], undefined past the end; <<>> stands for no task.
TaskAt(ts, taskIndex) ==
    IF taskIndex >= 0 /\ taskIndex < Len(ts) THEN <<ts[taskIndex + 1]>> ELSE <<>>

\* A hit-test that forgets the vertical scroll offset.
HitTest_IgnoresScroll(x, y) ==
    IF x >= avatarColumnWidth /\ x <= avatarColumnWidth + infoColumnWidth
       /\ y >= headerHeight
    THEN TaskAt(filteredTasks, FloorDiv(y - headerHeight, taskHeight))
    ELSE <<>>

\* The value handleCanvasClick hands to setSelectedTask.
HitTest(x, y) ==
    IF x >= avatarColumnWidth /\ x <= avatarColumnWidth + infoColumnWidth
       /\ y >= headerHeight
    THEN TaskAt(filteredTasks, FloorDiv(y + verticalScroll - headerHeight, taskHeight))
    ELSE <<>>

\* The modal is a fixed full-window overlay (part_004:367-383): while it is
\* open the canvas receives no click.
HandleCanvasClick(x, y) ==
    /\ pendingEffects = {}
    /\ selectedTask = <<>>
    /\ selectedTask' = HitTest(x, y)
    /\ lastEvent' = [kind |-> "click", commits |-> 0, x |-> x, y |-> y]
    /\ UNCHANGED <<tasks, filterVars, scrollVars, statusLabels, rect,
                   resizeClosure, pendingEffects, netVars, pureVars, envVars, lifeVars>>

\* TaskModal onClose: the selection is cleared only when the selected task's
\* id is still in the task list.
CloseModal ==
    /\ pendingEffects = {}
    /\ selectedTask # <<>>
    /\ selectedTask' =
          IF \E i \in 1..Len(tasks) : tasks[i].id = selectedTask[1].id
          THEN <<>> ELSE selectedTask
    /\ lastEvent' = [kind |-> "close", commits |-> 0,
                     pre |-> [scrollPosition |-> scrollPosition,
                              verticalScroll |-> verticalScroll]]
    /\ UNCHANGED <<tasks, filterVars, scrollVars, statusLabels, rect,
                   resizeClosure, pendingEffects, netVars, pureVars, envVars, lifeVars>>

-----------------------------------------------------------------------------
(* Layout and scroll: part_003:798-866 and 1044-1105                       *)

minWidth == 800 * Px
minHeight == 600 * Px

\* Slider values are rationals n/d in lowest terms; 0/0 is NaN.
RECURSIVE GCD(_, _)
GCD(a, b) == IF b = 0 THEN a ELSE GCD(b, a % b)
Frac(n, d) ==
    IF d = 0 THEN [n |-> 0, d |-> 0]
    ELSE [n |-> n \div GCD(n, d), d |-> d \div GCD(n, d)]
\* (scroll / max) * 100
Percent(scroll, max) == Frac(scroll * 100, max)

\* Days of 2024 before each month; day 0 is 2024-01-01.
MonthStarts == <<0, 31, 60, 91, 121, 152, 182, 213, 244, 274, 305, 335, 366>>
\* Date.getDate() in local time
GetDate(t, zone) ==
    LET day == FloorDiv(t + zone, TicksPerDay)
        m == CHOOSE k \in 1..12 : MonthStarts[k] <= day /\ day < MonthStarts[k + 1]
    IN  day - MonthStarts[m] + 1
\* Date.setDate(n), daylight saving aside
SetDate(t, zone, n) == t + (n - GetDate(t, zone)) * TicksPerDay

InvalidDate == 0 - 2    \* new Date(s) for an unparseable s

\* flatMap(task => [start, end or now]).filter(valid), as a set of timestamps
ChartDates(ts, today) ==
    {d \in UNION {{ts[i].start, IF ts[i].end # NoEnd THEN ts[i].end ELSE today}
                     : i \in 1..Len(ts)} : d # InvalidDate}
SetMin(S) == CHOOSE x \in S : \A y \in S : x <= y
SetMax(S) == CHOOSE x \in S : \A y \in S : x >= y
minDateOf(ts, today, zone) == SetDate(SetMin(ChartDates(ts, today)), zone, 1)
maxDateOf(ts, today, zone) ==
    LET m == SetMax(ChartDates(ts, today))
    IN  SetDate(m, zone, GetDate(m, zone) + 14)
totalDaysOf(ts, today, zone) ==
    CeilDiv(maxDateOf(ts, today, zone) - minDateOf(ts, today, zone), TicksPerDay)

\* The state a render closes over, as far as drawChart reads it.
RenderClosure ==
    [filteredTasks |-> filteredTasks, scrollPosition |-> scrollPosition,
     verticalScroll |-> verticalScroll, maxVerticalScroll |-> maxVerticalScroll]

\* The scroll state as one record, to thread a batch of setState calls.
ScrollState ==
    [scrollPosition |-> scrollPosition, verticalScroll |-> verticalScroll,
     maxScroll |-> maxScroll, maxVerticalScroll |-> maxVerticalScroll,
     horizontalSliderValue |-> horizontalSliderValue,
     verticalSliderValue |-> verticalSliderValue]

\* Scroll maxima without the floor at 0.
ScrollMaxima_NoFloor(ts, r) ==
    LET canvasWidth == Max(r.width, minWidth)
        canvasHeight == Max(r.height, minHeight)
        totalDays == totalDaysOf(ts, now, tz)
        totalContentHeight == headerHeight + Len(ts) * taskHeight
        visibleContentHeight == canvasHeight - headerHeight
    IN  [maxScroll |->
             totalDays * dayWidth
             - (canvasWidth - avatarColumnWidth - infoColumnWidth),
         maxVerticalScroll |-> totalContentHeight - visibleContentHeight]

\* The values drawChart hands to setMaxScroll and setMaxVerticalScroll
\* (part_003:853-859) for the filtered list ts in rectangle r.
ScrollMaxima(ts, r) ==
    LET canvasWidth == Max(r.width, minWidth)
        canvasHeight == Max(r.height, minHeight)
        totalDays == totalDaysOf(ts, now, tz)
        totalContentHeight == headerHeight + Len(ts) * taskHeight
        visibleContentHeight == canvasHeight - headerHeight
    IN  [maxScroll |->
             Max(0, totalDays * dayWidth
                    - (canvasWidth - avatarColumnWidth - infoColumnWidth)),
         maxVerticalScroll |-> Max(0, totalContentHeight - visibleContentHeight)]

\* A draw that also clamps the horizontal offset.
drawChart_ClampsHorizontal(st, c, r) ==
    IF c.filteredTasks = <<>> THEN st
    ELSE IF ChartDates(c.filteredTasks, now) = {} THEN st
    ELSE LET maxima == ScrollMaxima(c.filteredTasks, r)
             safeVerticalScroll == Min(c.verticalScroll, c.maxVerticalScroll)
             stMax == [st EXCEPT !.maxScroll = maxima.maxScroll,
                                 !.maxVerticalScroll = maxima.maxVerticalScroll,
                                 !.scrollPosition = Min(@, maxima.maxScroll)]
         IN  IF safeVerticalScroll # c.verticalScroll
             THEN [stMax EXCEPT !.verticalScroll = safeVerticalScroll,
                                !.verticalSliderValue =
                                    Percent(safeVerticalScroll, c.maxVerticalScroll)]
             ELSE stMax

\* drawChart: the setState calls it makes, applied to the batch st.  c is the
\* render the function closes over, r the container rectangle it measures.
drawChart(st, c, r) ==
    IF c.filteredTasks = <<>> THEN st
    ELSE IF ChartDates(c.filteredTasks, now) = {} THEN st
    ELSE LET maxima == ScrollMaxima(c.filteredTasks, r)
             safeVerticalScroll == Min(c.verticalScroll, c.maxVerticalScroll)
             stMax == [st EXCEPT !.maxScroll = maxima.maxScroll,
                                 !.maxVerticalScroll = maxima.maxVerticalScroll]
         IN  IF safeVerticalScroll # c.verticalScroll
             THEN [stMax EXCEPT !.verticalScroll = safeVerticalScroll,
                                !.verticalSliderValue =
                                    Percent(safeVerticalScroll, c.maxVerticalScroll)]
             ELSE stMax

\* Whether a draw by the render c computes a layout (it returns early otherwise).
ComputesLayout(c) ==
    c.filteredTasks # <<>> /\ ChartDates(c.filteredTasks, now) # {}

\* The coordinates of a row's bar that are NaN (part_003:919-922):
\* new Date(s).getTime() is NaN for an unparseable s and every sum, difference
\* and product with it is NaN; startX and endX are then not the numbers the
\* record of the bar holds.  An end that is null is falsy, an unparseable one
\* is a non-empty string.
BarNaN(task) ==
    (IF task.start = InvalidDate THEN {"startX"} ELSE {})
    \cup (IF (task.end # NoEnd /\ task.end = InvalidDate)
              \/ (task.end = NoEnd /\ task.start = InvalidDate)
          THEN {"endX"} ELSE {})

\* A bar that runs to today when the task has no end.
TaskBar_EndAtNow(ts, index, minDate, scrollX, scrollY, canvasHeight) ==
    LET task == ts[index + 1]
        y == headerHeight + index * taskHeight - scrollY
        startX == avatarColumnWidth + infoColumnWidth
                  + ((task.start - minDate) * dayWidth) \div TicksPerDay - scrollX
        endX == avatarColumnWidth + infoColumnWidth
                + (((IF task.end # NoEnd THEN task.end ELSE now) - minDate) * dayWidth)
                  \div TicksPerDay - scrollX
    IN  [painted |-> ~(y + taskHeight < headerHeight \/ y > canvasHeight),
         id |-> task.id, startX |-> startX, endX |-> endX,
         nan |-> BarNaN(task)]

\* The task bar of one row (part_003:913-926), drawn with the offsets
\* scrollX and scrollY handed to drawChart on a canvas canvasHeight high.
\* A row outside the canvas is skipped.
TaskBar(ts, index, minDate, scrollX, scrollY, canvasHeight) ==
    LET task == ts[index + 1]
        y == headerHeight + index * taskHeight - scrollY
        startX == avatarColumnWidth + infoColumnWidth
                  + ((task.start - minDate) * dayWidth) \div TicksPerDay - scrollX
        endX == IF task.end # NoEnd
                THEN avatarColumnWidth + infoColumnWidth
                     + ((task.end - minDate) * dayWidth) \div TicksPerDay - scrollX
                ELSE startX + dayWidth
    IN  [painted |-> ~(y + taskHeight < headerHeight \/ y > canvasHeight),
         id |-> task.id, startX |-> startX, endX |-> endX,
         nan |-> BarNaN(task)]

\* What drawChart(scrollX, scrollY) paints for the render c in rectangle r.
Painted(c, r, scrollX, scrollY) ==
    IF ~ComputesLayout(c) THEN [layout |-> FALSE]
    ELSE LET minDate == minDateOf(c.filteredTasks, now, tz)
         IN  [layout |-> TRUE,
              minDate |-> minDate,
              bars |-> [k \in 1..Len(c.filteredTasks) |->
                           TaskBar(c.filteredTasks, k - 1, minDate, scrollX, scrollY,
                                   Max(r.height, minHeight))]]

MaxLoads == 2           \* pending loads of one URL are counted up to MaxLoads

\* displayedAssignees = task.assignees.slice(0, 1): the avatar a row shows.
\* The model lists a task's set of assignees from its highest id.  0: none.
RowAvatar(task) == IF task.assignees = {} THEN 0 ELSE SetMax(task.assignees)

\* The rows drawChart(scrollX, scrollY) does not skip (part_003:914-915).
PaintedRows(ts, r, scrollY) ==
    {k \in 1..Len(ts) :
        LET y == headerHeight + (k - 1) * taskHeight - scrollY
        IN  ~(y + taskHeight < headerHeight \/ y > Max(r.height, minHeight))}

\* drawAvatar (part_003:765-796) called for every painted row of one draw:
\* a URL in the cache is painted at once, any other gets a new Image whose
\* onload is pending, once per row and per draw.
StartLoads(loads, cache, c, r, scrollY) ==
    IF ~ComputesLayout(c) THEN loads
    ELSE [u \in AvatarUrls |->
             IF u \in cache THEN loads[u]
             ELSE Min(MaxLoads,
                      loads[u] + Cardinality({k \in PaintedRows(c.filteredTasks, r, scrollY) :
                                                 RowAvatar(c.filteredTasks[k]) = u}))]

\* An effect run that installs its interval without clearing the previous one.
AutoUpdateEffect_NoClear(installed, held, interval) ==
    IF interval = AUTO_UPDATE_INTERVALS.OFF
    THEN [timers |-> installed, effectTimer |-> held]
    ELSE [timers |-> installed + 1, effectTimer |-> TRUE]

\* The auto-update effect re-run (part_003:181-230): the cleanup of the
\* previous run clears the interval it holds, then the effect returns at once
\* for OFF and installs one interval otherwise.
AutoUpdateEffect(installed, held, interval) ==
    LET cleared == IF held THEN installed - 1 ELSE installed
    IN  IF interval = AUTO_UPDATE_INTERVALS.OFF
        THEN [timers |-> cleared, effectTimer |-> FALSE]
        ELSE [timers |-> cleared + 1, effectTimer |-> TRUE]

\* The effect on [filteredTasks] (part_003:1044-1053): reset, then draw.
ResetScroll(st) ==
    [st EXCEPT !.scrollPosition = 0, !.verticalScroll = 0,
               !.horizontalSliderValue = Frac(0, 1),
               !.verticalSliderValue = Frac(0, 1)]

SetScrollState(st) ==
    /\ scrollPosition' = st.scrollPosition
    /\ verticalScroll' = st.verticalScroll
    /\ maxScroll' = st.maxScroll
    /\ maxVerticalScroll' = st.maxVerticalScroll
    /\ horizontalSliderValue' = st.horizontalSliderValue
    /\ verticalSliderValue' = st.verticalSliderValue

\* The effects whose dependencies the batch changed.
ScrollDeps(st) ==
    IF st.scrollPosition # scrollPosition \/ st.verticalScroll # verticalScroll
    THEN {"scroll"} ELSE {}

\* One commit: the effects whose dependencies changed run in source order
\* (the auto-update effect, part_003:181-230, before the drawing ones) on
\* the committed render, their setState calls form one batch; the effect on
\* [scrollPosition, verticalScroll] re-installs the resize listener.
Commit ==
    /\ pendingEffects # {}
    /\ LET c == RenderClosure
           s1 == IF "filteredTasks" \in pendingEffects
                 THEN drawChart(ResetScroll(ScrollState), c, rect) ELSE ScrollState
           s2 == IF "statusLabels" \in pendingEffects THEN drawChart(s1, c, rect) ELSE s1
           s3 == IF "scroll" \in pendingEffects THEN drawChart(s2, c, rect) ELSE s2
           l1 == IF "filteredTasks" \in pendingEffects
                 THEN StartLoads(avatarLoads, avatarCache, c, rect, 0) ELSE avatarLoads
           l2 == IF "statusLabels" \in pendingEffects
                 THEN StartLoads(l1, avatarCache, c, rect, c.verticalScroll) ELSE l1
           l3 == IF "scroll" \in pendingEffects
                 THEN StartLoads(l2, avatarCache, c, rect, c.verticalScroll) ELSE l2
           au == IF "autoUpdate" \in pendingEffects
                 THEN AutoUpdateEffect(timers, effectTimer, autoUpdateInterval)
                 ELSE [timers |-> timers, effectTimer |-> effectTimer]
       IN  /\ SetScrollState(s3)
           /\ pendingEffects' = ScrollDeps(s3)
           /\ resizeClosure' = IF "scroll" \in pendingEffects THEN c ELSE resizeClosure
           /\ avatarLoads' = l3
           /\ timers' = au.timers
           /\ effectTimer' = au.effectTimer
    /\ lastEvent' = [lastEvent EXCEPT !.commits = @ + 1]
    /\ UNCHANGED <<tasks, selectedTask, filterVars, statusLabels, rect, netVars,
                   pureVars, envVars, mounted, autoUpdateInterval, avatarCache>>

\* A wheel handler that moves both axes whenever the wheel moved on both.
HandleScroll_BothAxes(deltaX, deltaY, shiftKey) ==
    /\ pendingEffects = {}
    /\ LET abs(v) == IF v < 0 THEN 0 - v ELSE v
           newScrollPosition == Min(Max(0, scrollPosition + deltaX), maxScroll)
           newVerticalScroll == Min(Max(0, verticalScroll + deltaY), maxVerticalScroll)
           st == IF selectedTask # <<>> THEN ScrollState
                 ELSE IF shiftKey \/ abs(deltaX) > abs(deltaY)
                 THEN [ScrollState EXCEPT
                          !.scrollPosition = newScrollPosition,
                          !.verticalScroll = newVerticalScroll,
                          !.horizontalSliderValue =
                              IF maxScroll # 0 THEN Percent(newScrollPosition, maxScroll)
                              ELSE Frac(0, 1)]
                 ELSE [ScrollState EXCEPT
                          !.verticalScroll = newVerticalScroll,
                          !.verticalSliderValue =
                              IF maxVerticalScroll # 0
                              THEN Percent(newVerticalScroll, maxVerticalScroll)
                              ELSE Frac(0, 1)]
       IN  /\ SetScrollState(st)
           /\ pendingEffects' = ScrollDeps(st)
    /\ lastEvent' = [kind |-> "wheel", commits |-> 0, deltaX |-> deltaX,
                     deltaY |-> deltaY, shiftKey |-> shiftKey,
                     modal |-> selectedTask # <<>>, pre |-> ScrollState]
    /\ UNCHANGED <<tasks, selectedTask, filterVars, statusLabels, rect,
                   resizeClosure, netVars, pureVars, envVars, lifeVars>>

\* handleScroll (part_003:1072-1091)
HandleScroll(deltaX, deltaY, shiftKey) ==
    /\ pendingEffects = {}
    /\ LET abs(v) == IF v < 0 THEN 0 - v ELSE v
           newScrollPosition == Min(Max(0, scrollPosition + deltaX), maxScroll)
           newVerticalScroll == Min(Max(0, verticalScroll + deltaY), maxVerticalScroll)
           st == IF selectedTask # <<>> THEN ScrollState
                 ELSE IF shiftKey \/ abs(deltaX) > abs(deltaY)
                 THEN [ScrollState EXCEPT
                          !.scrollPosition = newScrollPosition,
                          !.horizontalSliderValue =
                              IF maxScroll # 0 THEN Percent(newScrollPosition, maxScroll)
                              ELSE Frac(0, 1)]
                 ELSE [ScrollState EXCEPT
                          !.verticalScroll = newVerticalScroll,
                          !.verticalSliderValue =
                              IF maxVerticalScroll # 0
                              THEN Percent(newVerticalScroll, maxVerticalScroll)
                              ELSE Frac(0, 1)]
       IN  /\ SetScrollState(st)
           /\ pendingEffects' = ScrollDeps(st)
    /\ lastEvent' = [kind |-> "wheel", commits |-> 0, deltaX |-> deltaX,
                     deltaY |-> deltaY, shiftKey |-> shiftKey,
                     modal |-> selectedTask # <<>>, pre |-> ScrollState]
    /\ UNCHANGED <<tasks, selectedTask, filterVars, statusLabels, rect,
                   resizeClosure, netVars, pureVars, envVars, lifeVars>>

\* handleHorizontalSliderChange (part_003:1093-1098); the slider lies under
\* the modal overlay while a task is selected.
HandleHorizontalSliderChange(value) ==
    /\ pendingEffects = {}
    /\ selectedTask = <<>>
    /\ LET st == [ScrollState EXCEPT !.horizontalSliderValue = Frac(value, 1),
                                     !.scrollPosition = (maxScroll * value) \div 100]
       IN  SetScrollState(st) /\ pendingEffects' = ScrollDeps(st)
    /\ lastEvent' = [kind |-> "hslider", commits |-> 0]
    /\ UNCHANGED <<tasks, selectedTask, filterVars, statusLabels, rect,
                   resizeClosure, netVars, pureVars, envVars, lifeVars>>

\* handleVerticalSliderChange (part_003:1100-1105)
HandleVerticalSliderChange(value) ==
    /\ pendingEffects = {}
    /\ selectedTask = <<>>
    /\ LET st == [ScrollState EXCEPT !.verticalSliderValue = Frac(value, 1),
                                     !.verticalScroll = (maxVerticalScroll * value) \div 100]
       IN  SetScrollState(st) /\ pendingEffects' = ScrollDeps(st)
    /\ lastEvent' = [kind |-> "vslider", commits |-> 0]
    /\ UNCHANGED <<tasks, selectedTask, filterVars, statusLabels, rect,
                   resizeClosure, netVars, pureVars, envVars, lifeVars>>

\* The window is resized: handleResize (part_003:1064-1066) runs the drawChart
\* of the render in which the listener was installed, on the new rectangle.
HandleResize(newRect) ==
    /\ pendingEffects = {}
    /\ newRect # rect
    /\ rect' = newRect
    /\ LET st == drawChart(ScrollState, resizeClosure, newRect)
       IN  SetScrollState(st) /\ pendingEffects' = ScrollDeps(st)
    /\ avatarLoads' = StartLoads(avatarLoads, avatarCache, resizeClosure, newRect,
                                 resizeClosure.verticalScroll)
    /\ lastEvent' = [kind |-> "resize", commits |-> 0,
                     layout |-> ComputesLayout(resizeClosure)]
    /\ UNCHANGED <<tasks, selectedTask, filterVars, statusLabels, resizeClosure,
                   netVars, pureVars, envVars, mounted, autoUpdateInterval, timers,
                   effectTimer, avatarCache>>

\* The excluded-labels select (part_003:1306)
ExcludedLabelsChange(value) ==
    /\ pendingEffects = {}
    /\ selectedTask = <<>>
    /\ value # excludedLabels
    /\ excludedLabels' = value
    /\ pendingEffects' = {"filteredTasks"}
    /\ lastEvent' = [kind |-> "filter", commits |-> 0]
    /\ UNCHANGED <<tasks, selectedTask, selectedLabels, showClosedIssues,
                   selectedAssignees, selectedMilestones, scrollVars, statusLabels,
                   rect, resizeClosure, netVars, pureVars, envVars, lifeVars>>

\* The status-labels select: a redraw with the scroll state kept.
StatusLabelsChange(value) ==
    /\ mounted
    /\ pendingEffects = {}
    /\ selectedTask = <<>>
    /\ value # statusLabels
    /\ statusLabels' = value
    /\ pendingEffects' = {"statusLabels"}
    /\ lastEvent' = [kind |-> "status", commits |-> 0]
    /\ UNCHANGED <<tasks, selectedTask, filterVars, scrollVars, rect,
                   resizeClosure, netVars, pureVars, envVars, lifeVars>>

\* setTasks with a new list (a refresh response or updateTask): the memo
\* filteredTasks is recomputed, also when the new list equals the old one.
SetTasks(newTasks) ==
    /\ pendingEffects = {}
    /\ tasks' = newTasks
    /\ pendingEffects' = {"filteredTasks"}
    /\ lastEvent' = [kind |-> "tasks", commits |-> 0]
    /\ UNCHANGED <<selectedTask, filterVars, scrollVars, statusLabels, rect,
                   resizeClosure, netVars, pureVars, envVars, lifeVars>>

\* The chart after mount in a container of rectangle r: every effect has run
\* once on the first render (all scroll state 0), so the maxima are those of
\* the first draw, the resize listener closes over the first render, the three
\* drawing effects have each started their avatar loads, and the auto-update
\* effect has installed the interval of the default setting (empty localStorage).
MountedChart(r) ==
    /\ rect = r
    /\ statusLabels = {}
    /\ scrollPosition = 0 /\ verticalScroll = 0
    /\ horizontalSliderValue = Frac(0, 1) /\ verticalSliderValue = Frac(0, 1)
    /\ LET c == [filteredTasks |-> filteredTasks, scrollPosition |-> 0,
                 verticalScroll |-> 0, maxVerticalScroll |-> 0]
           st == drawChart([scrollPosition |-> 0, verticalScroll |-> 0,
                            maxScroll |-> 0, maxVerticalScroll |-> 0,
                            horizontalSliderValue |-> Frac(0, 1),
                            verticalSliderValue |-> Frac(0, 1)], c, rect)
           noLoads == [u \in AvatarUrls |-> 0]
       IN  /\ maxScroll = st.maxScroll
           /\ maxVerticalScroll = st.maxVerticalScroll
           /\ resizeClosure = c
           /\ avatarLoads =
                 StartLoads(StartLoads(StartLoads(noLoads, {}, c, rect, 0),
                                       {}, c, rect, 0), {}, c, rect, 0)
    /\ pendingEffects = {}
    /\ lastEvent = [kind |-> "mount", commits |-> 0]
    /\ mounted = TRUE
    /\ autoUpdateInterval = AUTO_UPDATE_INTERVALS.MIN_1
    /\ timers = AutoUpdateEffect(0, FALSE, AUTO_UPDATE_INTERVALS.MIN_1).timers
    /\ effectTimer = AutoUpdateEffect(0, FALSE, AUTO_UPDATE_INTERVALS.MIN_1).effectTimer
    /\ avatarCache = {}

-----------------------------------------------------------------------------
(* Edit reconciliation and auto-refresh: part_003:139-230 and 497-658,     *)
(* part_004:295-307, 795-828, 890-959, part_000:727-771                    *)

MaxRequests == 2        \* requests issued in one behaviour
TitleValues == {"A", "B"}
DescriptionValues == {"D"}


\* tasks.find(t => t.id === taskId); <<>> stands for undefined.
FindTask(ts, taskId) ==
    IF \E i \in 1..Len(ts) : ts[i].id = taskId
    THEN <<ts[CHOOSE i \in 1..Len(ts) :
                 ts[i].id = taskId /\ \A j \in 1..(i - 1) : ts[j].id # taskId]>>
    ELSE <<>>

\* uniqueLabels (part_003:323) and the names of allLabels (part_003:510).
uniqueLabels(ts) == UNION {ts[i].labels : i \in 1..Len(ts)}
\* The ids of uniqueAssignees (part_003:329).
uniqueAssignees(ts) == UNION {ts[i].assignees : i \in 1..Len(ts)}

\* An update that overwrites every task of the list.
updateTask_AllTasks(ts, taskId, field, value) ==
    [i \in 1..Len(ts) |-> [ts[i] EXCEPT ![field] = value]]

\* updateTask: prevTasks.map(task => task.id === taskId ? {...task, ...updates} : task)
updateTask(ts, taskId, field, value) ==
    [i \in 1..Len(ts) |->
        IF ts[i].id = taskId THEN [ts[i] EXCEPT ![field] = value] ELSE ts[i]]

Request(kind, taskId, field) ==
    [seq |-> nextSeq + 1, kind |-> kind, status |-> "sent", taskId |-> taskId,
     field |-> field, title |-> "", description |-> "", labels |-> {},
     assignee |-> NoAssignee, localLabels |-> {}, localAssignees |-> {},
     value |-> 0, data |-> <<>>, overtakenBy |-> <<>>, applied |-> <<>>]

\* The part the four handlers share: look the task up, read the credentials,
\* issue the PUT.  Nothing is written to the task list here.
IssuePut(r) ==
    /\ pendingEffects = {}
    /\ nextSeq < MaxRequests
    /\ IF FindTask(tasks, r.taskId) = <<>> \/ ~credentials
       THEN UNCHANGED <<requests, nextSeq>>
       ELSE /\ requests' = requests \cup {r}
            /\ nextSeq' = nextSeq + 1
    /\ lastEvent' = [kind |-> "edit", commits |-> 0, req |-> r, tasks |-> tasks,
                     issued |-> (FindTask(tasks, r.taskId) # <<>> /\ credentials)]
    /\ UNCHANGED <<tasks, selectedTask, filterVars, scrollVars, statusLabels, rect,
                   resizeClosure, pendingEffects, isUpdating, credentials, remote,
                   pureVars, envVars, lifeVars>>

\* handleTitleSave -> handleTitleChange
HandleTitleSave(editedTitle) ==
    /\ selectedTask # <<>>
    /\ editedTitle # selectedTask[1].name
    /\ IssuePut([Request("put", selectedTask[1].id, "name") EXCEPT !.title = editedTitle])

\* handleDescriptionSave -> handleDescriptionChange
HandleDescriptionSave(editedDescription) ==
    /\ selectedTask # <<>>
    /\ editedDescription # selectedTask[1].description
    /\ IssuePut([Request("put", selectedTask[1].id, "description")
                    EXCEPT !.description = editedDescription])

\* handleLabelChange: the labels written locally are the new names that some
\* task of the current list carries.
HandleLabelChange(taskId, newLabels) ==
    IssuePut([Request("put", taskId, "labels")
                 EXCEPT !.labels = newLabels,
                        !.localLabels = newLabels \cap uniqueLabels(tasks)])

\* Label chip onDelete
LabelDelete(label) ==
    /\ selectedTask # <<>>
    /\ label \in selectedTask[1].labels
    /\ HandleLabelChange(selectedTask[1].id, selectedTask[1].labels \ {label})

\* Add-label menu onClick
LabelAdd(label) ==
    /\ selectedTask # <<>>
    /\ label \in uniqueLabels(tasks) \ selectedTask[1].labels
    /\ HandleLabelChange(selectedTask[1].id, selectedTask[1].labels \cup {label})

\* handleAssigneeChange
HandleAssigneeChange(taskId, newAssigneeId) ==
    IssuePut([Request("put", taskId, "assignees")
                 EXCEPT !.assignee = newAssigneeId,
                        !.localAssignees =
                            IF newAssigneeId # NoAssignee
                               /\ newAssigneeId \in uniqueAssignees(tasks)
                            THEN {newAssigneeId} ELSE {}])

\* Assignee remove button and assignee menu onClick
AssigneeChange(newAssigneeId) ==
    /\ selectedTask # <<>>
    /\ \/ newAssigneeId = NoAssignee /\ selectedTask[1].assignees # {}
       \/ newAssigneeId \in uniqueAssignees(tasks) \ selectedTask[1].assignees
    /\ HandleAssigneeChange(selectedTask[1].id, newAssigneeId)

\* The body the proxy forwards to GitLab, applied to the issue.
RemoteApply(ts, r) ==
    IF r.field = "name"
    THEN IF r.title # "" THEN updateTask(ts, r.taskId, "name", r.title) ELSE ts
    ELSE IF r.field = "description"
    THEN updateTask(ts, r.taskId, "description", r.description)
    ELSE IF r.field = "labels"
    THEN IF r.labels # {} THEN updateTask(ts, r.taskId, "labels", r.labels) ELSE ts
    ELSE IF r.field \in {"start", "end"}
    THEN updateTask(ts, r.taskId, r.field, r.value)
    ELSE IF r.field = "milestone"
    THEN ts
    ELSE updateTask(ts, r.taskId, "assignees",
                    IF r.assignee = NoAssignee THEN {} ELSE {r.assignee})

\* PUT /issues/:projectId/:issueIid answered with the updated issue.
ServerPut(r) ==
    /\ r \in requests /\ r.kind \in {"put", "modalPut"} /\ r.status = "sent"
    /\ remote' = RemoteApply(remote, r)
    /\ requests' = (requests \ {r}) \cup {[r EXCEPT !.status = "ok"]}
    /\ UNCHANGED <<tasks, selectedTask, filterVars, scrollVars, statusLabels, rect,
                   resizeClosure, pendingEffects, lastEvent, isUpdating, credentials, nextSeq,
                   pureVars, envVars, lifeVars>>

\* A request that fails: the host is unreachable or GitLab answers an error.
ServerFail(r) ==
    /\ r \in requests /\ r.status = "sent"
    /\ requests' = (requests \ {r}) \cup {[r EXCEPT !.status = "err"]}
    /\ UNCHANGED <<tasks, selectedTask, filterVars, scrollVars, statusLabels, rect,
                   resizeClosure, pendingEffects, lastEvent, isUpdating, credentials, remote,
                   nextSeq, pureVars, envVars, lifeVars>>

\* TaskModal's own PUT (part_004:309-365): the modal checks the credentials
\* and the ids of the task it was given, then issues the request.
ModalIssuePut(r) ==
    /\ mounted
    /\ pendingEffects = {}
    /\ selectedTask # <<>>
    /\ nextSeq < MaxRequests
    /\ IF ~credentials
       THEN UNCHANGED <<requests, nextSeq>>
       ELSE /\ requests' = requests \cup {r}
            /\ nextSeq' = nextSeq + 1
    /\ lastEvent' = [kind |-> "modalEdit", commits |-> 0, req |-> r, tasks |-> tasks,
                     issued |-> credentials]
    /\ UNCHANGED <<tasks, selectedTask, filterVars, scrollVars, statusLabels, rect,
                   resizeClosure, pendingEffects, isUpdating, credentials, remote,
                   pureVars, envVars, lifeVars>>

\* TaskModal handleDateChange(field, value): PUT {start_date: value} or
\* {due_date: value}.
HandleDateChange(field, value) ==
    /\ selectedTask # <<>>
    /\ ModalIssuePut([Request("modalPut", selectedTask[1].id, field) EXCEPT !.value = value])

\* TaskModal handleMilestoneChange(milestoneId): PUT {milestone_id: milestoneId}.
HandleMilestoneChange(milestoneId) ==
    /\ selectedTask # <<>>
    /\ ModalIssuePut([Request("modalPut", selectedTask[1].id, "milestone")
                         EXCEPT !.value = milestoneId])

\* After the modal's await axios.put: onDateChange is the chart's
\* handleDateChange, which has an empty body (part_003:660-662), and the chart
\* passes no onMilestoneChange (part_003:1514-1534); a rejection is logged.
ModalPutSettled(r) ==
    /\ mounted
    /\ pendingEffects = {}
    /\ r \in requests /\ r.kind = "modalPut" /\ r.status \in {"ok", "err"}
    /\ requests' = requests \ {r}
    /\ lastEvent' = [kind |-> "modalPutSettled", commits |-> 0, req |-> r, tasks |-> tasks]
    /\ UNCHANGED <<tasks, selectedTask, filterVars, scrollVars, statusLabels, rect,
                   resizeClosure, pendingEffects, isUpdating, credentials, remote,
                   nextSeq, pureVars, envVars, lifeVars>>

\* The value a resolved PUT writes to the task.
LocalValue(r) ==
    IF r.field = "name" THEN r.title
    ELSE IF r.field = "description" THEN r.description
    ELSE IF r.field = "labels" THEN r.localLabels
    ELSE r.localAssignees

\* A handler that also writes the edit when the call rejected.
PutRejected_AppliesEdit(r) ==
    /\ pendingEffects = {}
    /\ r \in requests /\ r.kind = "put" /\ r.status = "err"
    /\ tasks' = updateTask(tasks, r.taskId, r.field, LocalValue(r))
    /\ requests' = requests \ {r}
    /\ pendingEffects' = {"filteredTasks"}
    /\ lastEvent' = [kind |-> "putRejected", commits |-> 0, req |-> r, tasks |-> tasks]
    /\ UNCHANGED <<selectedTask, filterVars, scrollVars, statusLabels, rect,
                   resizeClosure, isUpdating, credentials, remote,
                   nextSeq, pureVars, envVars, lifeVars>>

\* catch (error) { console.error(...) }
PutRejected(r) ==
    /\ pendingEffects = {}
    /\ r \in requests /\ r.kind = "put" /\ r.status = "err"
    /\ requests' = requests \ {r}
    /\ lastEvent' = [kind |-> "putRejected", commits |-> 0, req |-> r, tasks |-> tasks]
    /\ UNCHANGED <<tasks, selectedTask, filterVars, scrollVars, statusLabels, rect,
                   resizeClosure, pendingEffects, isUpdating, credentials, remote,
                   nextSeq, pureVars, envVars, lifeVars>>

\* Bookkeeping, not program state: a request q still in flight notes that the
\* later-issued edit r has been applied locally (q.applied), and, when q edits
\* the same field of the same task, that r has overtaken it (q.overtakenBy).
Noted(q, r) ==
    IF q.seq > r.seq THEN q
    ELSE [q EXCEPT !.applied = <<r>>,
                   !.overtakenBy =
                       IF q.kind = "put" /\ q.taskId = r.taskId /\ q.field = r.field
                       THEN <<r>> ELSE @]

\* The statements after await axios.put: updateTask(taskId, {...}).
PutResolved(r) ==
    /\ pendingEffects = {}
    /\ r \in requests /\ r.kind = "put" /\ r.status = "ok"
    /\ tasks' = updateTask(tasks, r.taskId, r.field, LocalValue(r))
    /\ requests' = {Noted(q, r) : q \in requests \ {r}}
    /\ pendingEffects' = {"filteredTasks"}
    /\ lastEvent' = [kind |-> "putResolved", commits |-> 0, req |-> r, tasks |-> tasks]
    /\ UNCHANGED <<selectedTask, filterVars, scrollVars, statusLabels, rect,
                   resizeClosure, isUpdating, credentials, remote,
                   nextSeq, pureVars, envVars, lifeVars>>

\* An interval callback without the test of the updating flag.
TimerTick_IgnoresFlag ==
    /\ mounted
    /\ pendingEffects = {}
    /\ timers > 0
    /\ nextSeq < MaxRequests
    /\ credentials
    /\ isUpdating' = TRUE
    /\ requests' = requests \cup {Request("get", 0, "")}
    /\ nextSeq' = nextSeq + 1
    /\ pendingEffects' = {"autoUpdate"}
    /\ lastEvent' = [kind |-> "tick", commits |-> 0]
    /\ UNCHANGED <<tasks, selectedTask, filterVars, scrollVars, statusLabels, rect,
                   resizeClosure, credentials, remote, pureVars,
                   envVars, lifeVars>>

\* updateTasks, the interval callback, up to its await.
TimerTick ==
    /\ mounted
    /\ pendingEffects = {}
    /\ timers > 0
    /\ nextSeq < MaxRequests
    /\ ~isUpdating
    /\ credentials
    /\ isUpdating' = TRUE
    /\ requests' = requests \cup {Request("get", 0, "")}
    /\ nextSeq' = nextSeq + 1
    /\ pendingEffects' = {"autoUpdate"}
    /\ lastEvent' = [kind |-> "tick", commits |-> 0]
    /\ UNCHANGED <<tasks, selectedTask, filterVars, scrollVars, statusLabels, rect,
                   resizeClosure, credentials, remote, pureVars,
                   envVars, lifeVars>>

\* GET /issues answered with the issues the server holds.
ServerGet(r) ==
    /\ r \in requests /\ r.kind = "get" /\ r.status = "sent"
    /\ requests' = (requests \ {r}) \cup {[r EXCEPT !.status = "ok", !.data = remote]}
    /\ UNCHANGED <<tasks, selectedTask, filterVars, scrollVars, statusLabels, rect,
                   resizeClosure, pendingEffects, lastEvent, isUpdating, credentials, remote,
                   nextSeq, pureVars, envVars, lifeVars>>

\* A response merged into the list by id instead of replacing it.
GetResolved_Merge(r) ==
    /\ mounted
    /\ pendingEffects = {}
    /\ r \in requests /\ r.kind = "get" /\ r.status = "ok"
    /\ tasks' = [i \in 1..Len(tasks) |->
                    IF FindTask(r.data, tasks[i].id) # <<>>
                       /\ (r.applied = <<>> \/ r.applied[1].taskId # tasks[i].id)
                    THEN FindTask(r.data, tasks[i].id)[1] ELSE tasks[i]]
    /\ isUpdating' = FALSE
    /\ requests' = requests \ {r}
    /\ pendingEffects' = {"filteredTasks", "autoUpdate"}
    /\ lastEvent' = [kind |-> "getResolved", commits |-> 0, req |-> r, tasks |-> tasks]
    /\ UNCHANGED <<selectedTask, filterVars, scrollVars, statusLabels, rect,
                   resizeClosure, credentials, remote, nextSeq,
                   pureVars, envVars, lifeVars>>

\* The statements after await axios.get: setTasks(response.data), and the
\* finally block.  The proxy answers a successful GET with an array.
GetResolved(r) ==
    /\ mounted
    /\ pendingEffects = {}
    /\ r \in requests /\ r.kind = "get" /\ r.status = "ok"
    /\ tasks' = r.data
    /\ isUpdating' = FALSE
    /\ requests' = requests \ {r}
    /\ pendingEffects' = {"filteredTasks", "autoUpdate"}
    /\ lastEvent' = [kind |-> "getResolved", commits |-> 0, req |-> r, tasks |-> tasks]
    /\ UNCHANGED <<selectedTask, filterVars, scrollVars, statusLabels, rect,
                   resizeClosure, credentials, remote, nextSeq,
                   pureVars, envVars, lifeVars>>

\* catch and finally of a failed GET.
GetRejected(r) ==
    /\ mounted
    /\ pendingEffects = {}
    /\ r \in requests /\ r.kind = "get" /\ r.status = "err"
    /\ isUpdating' = FALSE
    /\ requests' = requests \ {r}
    /\ pendingEffects' = {"autoUpdate"}
    /\ lastEvent' = [kind |-> "getRejected", commits |-> 0, req |-> r]
    /\ UNCHANGED <<tasks, selectedTask, filterVars, scrollVars, statusLabels, rect,
                   resizeClosure, credentials, remote, nextSeq,
                   pureVars, envVars, lifeVars>>

-----------------------------------------------------------------------------
(* SpecFilter: the filter as a pure function of a task list and a filter   *)
(* state, applied once and then to its own result.                         *)

MaxLen == 2             \* longest task list SpecFilter draws
FilterUniverse == 8     \* SpecFilter draws its lists from task 1..FilterUniverse
AssigneeIdSets == {{}, {1}, {2}}
MilestoneIdSets == {{}, {1}, {2}}

\* Values the other specifications' variables take while a specification
\* does not use them.
IdleScroll ==
    /\ scrollPosition = 0 /\ verticalScroll = 0
    /\ maxScroll = 0 /\ maxVerticalScroll = 0
    /\ horizontalSliderValue = [n |-> 0, d |-> 1]
    /\ verticalSliderValue = [n |-> 0, d |-> 1]
IdleView ==
    /\ statusLabels = {}
    /\ rect = [width |-> 800 * Px, height |-> 600 * Px]
    /\ resizeClosure = [filteredTasks |-> <<>>, scrollPosition |-> 0,
                        verticalScroll |-> 0, maxVerticalScroll |-> 0]
    /\ pendingEffects = {}
    /\ lastEvent = [kind |-> "mount", commits |-> 0]
IdleNet ==
    /\ isUpdating = FALSE /\ credentials = TRUE
    /\ requests = {} /\ remote = <<>> /\ nextSeq = 0
IdlePure == once = <<>> /\ twice = <<>> /\ stage = 0 /\ drawn = <<>>
IdleEnv == tz = 0 /\ now = 120 * TicksPerDay
IdleLife ==
    /\ mounted = FALSE /\ autoUpdateInterval = AUTO_UPDATE_INTERVALS.MIN_1
    /\ timers = 0 /\ effectTimer = FALSE
    /\ avatarCache = {} /\ avatarLoads = [u \in AvatarUrls |-> 0]
IdleFilter ==
    /\ selectedLabels = {} /\ excludedLabels = {} /\ selectedAssignees = {}
    /\ selectedMilestones = {} /\ showClosedIssues = FALSE

InitFilter ==
    /\ tasks \in {[k \in 1..Len(s) |-> GenTask(s[k])] : s \in IncSeqs(FilterUniverse, MaxLen)}
    /\ selectedTask = <<>>
    /\ selectedLabels \in SUBSET LabelNames
    /\ excludedLabels \in SUBSET LabelNames
    /\ selectedAssignees \in AssigneeIdSets
    /\ selectedMilestones \in MilestoneIdSets
    /\ showClosedIssues \in BOOLEAN
    /\ IdleScroll /\ IdleView /\ IdleNet /\ IdlePure /\ IdleEnv /\ IdleLife

\* useMemo(() => tasks.filter(...)) evaluated on the task list.
ApplyFilter ==
    /\ stage = 0
    /\ once' = filteredTasks
    /\ stage' = 1
    /\ UNCHANGED <<tasks, selectedTask, filterVars, scrollVars, viewVars,
                   netVars, twice, drawn, envVars, lifeVars>>

\* The same filter evaluated on the list it returned.
ApplyFilterAgain ==
    /\ stage = 1
    /\ twice' = FilterTasks(once, selectedLabels, excludedLabels, selectedAssignees,
                            selectedMilestones, showClosedIssues)
    /\ stage' = 2
    /\ UNCHANGED <<tasks, selectedTask, filterVars, scrollVars, viewVars,
                   netVars, once, drawn, envVars, lifeVars>>

NextFilter == ApplyFilter \/ ApplyFilterAgain

SpecFilter == InitFilter /\ [][NextFilter]_vars

\* C5: the filtered list is exactly the subsequence, in the original order, of
\* the tasks that satisfy all five rules: not closed unless showClosed; no
\* label in excludeLabels; includeLabels empty or some label in it;
\* assigneeIds empty or some assignee in it; milestoneIds empty or the task's
\* milestone in it.  A task with an excluded label is dropped even when it
\* also carries an included label.
C5_Satisfies(t) ==
    /\ (t.state = "closed" => showClosedIssues)
    /\ \A l \in t.labels : l \notin excludedLabels
    /\ (selectedLabels = {} \/ \E l \in t.labels : l \in selectedLabels)
    /\ (selectedAssignees = {} \/ \E a \in t.assignees : a \in selectedAssignees)
    /\ (selectedMilestones = {} \/ t.milestone \in selectedMilestones)
C5_FilterIsSubsequenceOfSatisfying ==
    stage >= 1 => once = SelectSeq(tasks, C5_Satisfies)
C5_Witness ==
    /\ stage = 1
    /\ \E i \in 1..Len(tasks) :
          /\ tasks[i].labels \cap excludedLabels # {}
          /\ tasks[i].labels \cap selectedLabels # {}
          /\ (tasks[i].state = "closed" => showClosedIssues)
    /\ Len(once) >= 1 /\ Len(once) < Len(tasks)

\* C6: filtering is idempotent: the filter applied to an already filtered
\* list, with the same filter state, returns that list unchanged.
C6_FilterIdempotent == stage = 2 => twice = once
C6_Witness ==
    /\ stage = 2 /\ Len(once) >= 1 /\ Len(once) < Len(tasks) /\ twice = once

-----------------------------------------------------------------------------
(* Spec: the chart mounted on a connected project; its modal edits and its *)
(* refresh requests in flight, in an 800 x 600 container.                  *)

EditTaskList == GenList(2)    \* the project Spec starts from
SpecClickX == 100 * Px
SpecClickYs == {headerHeight + k * taskHeight + 22 * Px : k \in 0..Len(EditTaskList)}

\* The chart mounted on a connected project, once loadInitialData has returned
\* (or was skipped for lack of credentials): the list is the server's.
Init ==
    /\ tasks = EditTaskList
    /\ remote = EditTaskList
    /\ selectedTask = <<>>
    /\ credentials \in BOOLEAN
    /\ isUpdating = FALSE
    /\ nextSeq = 0
    /\ requests = {}
    /\ IdleFilter /\ IdleEnv /\ IdlePure
    /\ MountedChart([width |-> 800 * Px, height |-> 600 * Px])

Click == \E y \in SpecClickYs : HandleCanvasClick(SpecClickX, y)
TitleSave == \E v \in TitleValues : HandleTitleSave(v)
DescriptionSave == \E v \in DescriptionValues : HandleDescriptionSave(v)
LabelChipDelete == \E l \in LabelNames : LabelDelete(l)
LabelMenuAdd == \E l \in LabelNames : LabelAdd(l)
AssigneeEdit == \E a \in {NoAssignee, 1, 2} : AssigneeChange(a)
PutServed == \E r \in requests : ServerPut(r)
GetServed == \E r \in requests : ServerGet(r)
RequestFailed == \E r \in requests : ServerFail(r)
PutDone == \E r \in requests : PutResolved(r)
PutFailed == \E r \in requests : PutRejected(r)
GetDone == \E r \in requests : GetResolved(r)
GetFailed == \E r \in requests : GetRejected(r)

Next ==
    \/ Click
    \/ CloseModal
    \/ TitleSave
    \/ DescriptionSave
    \/ LabelChipDelete
    \/ LabelMenuAdd
    \/ AssigneeEdit
    \/ PutServed
    \/ GetServed
    \/ RequestFailed
    \/ PutDone
    \/ PutFailed
    \/ TimerTick
    \/ GetDone
    \/ GetFailed
    \/ Commit

Spec == Init /\ [][Next]_vars

\* The field of the task with the given id, or "?" when the list has no such task.
FieldOf(ts, taskId, field) ==
    IF FindTask(ts, taskId) = <<>> THEN "?" ELSE FindTask(ts, taskId)[1][field]

IsTitleEdit(r) == r.kind = "put" /\ r.field = "name"

\* C1 as stated: when a title edit's remote call rejects, the in-memory name
\* of the task is the edited value afterwards.
C1_Original_EditStaysAfterReject ==
    (lastEvent.kind = "putRejected" /\ IsTitleEdit(lastEvent.req))
        => FieldOf(tasks, lastEvent.req.taskId, "name") = lastEvent.req.title

\* C1 amended: neither issuing a title edit nor the rejection of its remote
\* call writes the task list; the edited title is withheld until the call
\* succeeds, so a rejected edit is never applied locally.
C1_RejectedTitleEditIsWithheld ==
    /\ (lastEvent.kind = "edit" /\ IsTitleEdit(lastEvent.req))
           => tasks = lastEvent.tasks
    /\ (lastEvent.kind = "putRejected" /\ IsTitleEdit(lastEvent.req))
           => tasks = lastEvent.tasks
C1_Witness ==
    /\ lastEvent.kind = "putRejected"
    /\ IsTitleEdit(lastEvent.req)
    /\ FieldOf(tasks, lastEvent.req.taskId, "name") = "t"
    /\ lastEvent.req.title = "A"

\* The value an edit asks for.
RequestedValue(r) ==
    IF r.field = "name" THEN r.title
    ELSE IF r.field = "description" THEN r.description
    ELSE IF r.field = "labels" THEN r.labels
    ELSE IF r.assignee = NoAssignee THEN {} ELSE {r.assignee}

\* C2 as stated: while the remote call of an edit has not completed, the
\* in-memory task with the matching id already carries the new value.
C2_Original_AppliedBeforeRemoteCompletes ==
    \A r \in requests :
        r.kind = "put"
            => FieldOf(tasks, r.taskId, r.field) = RequestedValue(r)

\* C2 amended: issuing an edit changes no task; when its remote call resolves,
\* the task with the matching id carries the new value (for labels, the new
\* names that some task carried when the edit was issued; for the assignee,
\* the chosen user) and every other task is as it was.
C2_AppliedWhenRemoteResolves ==
    /\ lastEvent.kind = "edit" =>
          /\ tasks = lastEvent.tasks
          /\ lastEvent.req.localLabels =
                {l \in lastEvent.req.labels :
                    \E i \in 1..Len(tasks) : l \in tasks[i].labels}
    /\ lastEvent.kind = "putResolved" =>
          /\ Len(tasks) = Len(lastEvent.tasks)
          /\ \A i \in 1..Len(tasks) :
                IF lastEvent.tasks[i].id = lastEvent.req.taskId
                THEN /\ tasks[i][lastEvent.req.field] =
                            (IF lastEvent.req.field = "labels"
                             THEN lastEvent.req.localLabels
                             ELSE RequestedValue(lastEvent.req))
                     /\ \A f \in DOMAIN tasks[i] :
                           f # lastEvent.req.field => tasks[i][f] = lastEvent.tasks[i][f]
                ELSE tasks[i] = lastEvent.tasks[i]
C2_Witness ==
    /\ lastEvent.kind = "putResolved"
    /\ tasks # lastEvent.tasks
    /\ \E i \in 1..Len(tasks) : tasks[i].id # lastEvent.req.taskId

\* C3 as stated: two edits of one field of one task, issued one after the
\* other while both calls are in flight, both succeeding: once both have
\* completed the field holds the value of the edit issued last.
C3_Original_LastIssuedWins ==
    ( /\ lastEvent.kind = "putResolved"
      /\ lastEvent.req.overtakenBy # <<>> )
    => FieldOf(tasks, lastEvent.req.taskId, lastEvent.req.field)
           = LocalValue(lastEvent.req.overtakenBy[1])

\* C4: when a refresh succeeds the task list becomes exactly the response in
\* one step; an edit applied locally between the refresh's request and its
\* response is replaced by the server's data.
C4_RefreshReplacesList ==
    lastEvent.kind = "getResolved" => tasks = lastEvent.req.data
C4_Witness ==
    /\ lastEvent.kind = "getResolved"
    /\ lastEvent.req.applied # <<>>
    /\ LET p == lastEvent.req.applied[1]
       IN  /\ FieldOf(lastEvent.tasks, p.taskId, p.field) = LocalValue(p)
           /\ FieldOf(tasks, p.taskId, p.field) # LocalValue(p)

-----------------------------------------------------------------------------
(* SpecScroll: the mounted chart under wheel, slider, click, resize,       *)
(* filter and task-list events.                                            *)

MaxRows == 20           \* rows of the longest task list SpecScroll draws
ScrollLists == {GenList(0), GenList(MaxRows)}
Rects ==
    {[width |-> 800 * Px, height |-> 600 * Px],
     [width |-> 1000 * Px, height |-> 600 * Px],
     [width |-> 800 * Px, height |-> 700 * Px]}
Wheels ==
    {[deltaX |-> 600 * Px, deltaY |-> 300 * Px, shiftKey |-> FALSE],
     [deltaX |-> 0 - 600 * Px, deltaY |-> 0, shiftKey |-> FALSE],
     [deltaX |-> 100 * Px, deltaY |-> 200 * Px, shiftKey |-> FALSE],
     [deltaX |-> 0, deltaY |-> 0 - 200 * Px, shiftKey |-> FALSE],
     [deltaX |-> 600 * Px, deltaY |-> 700 * Px, shiftKey |-> TRUE]}
SliderValues == {0, 50}
ClickXs == {39 * Px, 40 * Px, 440 * Px, 441 * Px}
ClickYs == {79 * Px, 80 * Px, 599 * Px}

InitScroll ==
    /\ tasks \in ScrollLists
    /\ selectedTask = <<>>
    /\ IdleFilter /\ IdleEnv
    /\ \E r \in Rects : MountedChart(r)
    /\ IdleNet /\ IdlePure

Wheel == \E w \in Wheels : HandleScroll(w.deltaX, w.deltaY, w.shiftKey)
HorizontalSlider == \E v \in SliderValues : HandleHorizontalSliderChange(v)
VerticalSlider == \E v \in SliderValues : HandleVerticalSliderChange(v)
CanvasClick == \E x \in ClickXs, y \in ClickYs : HandleCanvasClick(x, y)
Resize == \E r \in Rects : HandleResize(r)
ExcludedLabels == \E v \in {{}, {"wontfix"}} : ExcludedLabelsChange(v)
StatusLabels == \E v \in {{}, {"bug"}} : StatusLabelsChange(v)
TaskListChange == \E l \in ScrollLists : SetTasks(l)

NextScroll ==
    \/ Commit
    \/ Wheel
    \/ HorizontalSlider
    \/ VerticalSlider
    \/ CanvasClick
    \/ CloseModal
    \/ Resize
    \/ ExcludedLabels
    \/ StatusLabels
    \/ TaskListChange

SpecScroll == InitScroll /\ [][NextScroll]_vars

-----------------------------------------------------------------------------
(* Claims on SpecScroll                                                    *)

InSpan(x) == x >= avatarColumnWidth /\ x <= avatarColumnWidth + infoColumnWidth

\* C7: for every vertical scroll offset, a click with x inside the info-column
\* span and y at or below the header bottom selects the task at index
\* floor((y + scrollY - headerHeight) / rowHeight) of the filtered list when
\* that index exists; every other click leaves the selection empty.
C7_ClickSelectsRowUnderPointer ==
    lastEvent.kind = "click" =>
        LET rowIndex == FloorDiv(lastEvent.y + verticalScroll - headerHeight, taskHeight)
        IN  IF InSpan(lastEvent.x) /\ lastEvent.y >= headerHeight
               /\ rowIndex >= 0 /\ rowIndex < Len(filteredTasks)
            THEN selectedTask = <<filteredTasks[rowIndex + 1]>>
            ELSE selectedTask = <<>>

\* A click on a scrolled chart that selected a row below the first screenful.
C7_Witness ==
    /\ lastEvent.kind = "click"
    /\ verticalScroll > 0
    /\ selectedTask # <<>>
    /\ selectedTask # TaskAt(filteredTasks,
                             FloorDiv(lastEvent.y - headerHeight, taskHeight))

\* The last event's draw computed a layout and every state update it caused
\* has been committed.
LayoutSettled ==
    /\ pendingEffects = {}
    /\ \/ lastEvent.kind = "resize" /\ lastEvent.layout
       \/ /\ lastEvent.kind \in {"wheel", "hslider", "vslider", "filter", "tasks"}
          /\ lastEvent.commits >= 1
          /\ ComputesLayout(RenderClosure)

\* C8: after every layout recompute, once its state updates have settled,
\* 0 <= offsetX <= maxHorizontalScroll and 0 <= offsetY <= maxVerticalScroll
\* for the maxima that layout computed.
C8_Original_OffsetsWithinMaxima ==
    LayoutSettled =>
        /\ 0 <= scrollPosition /\ scrollPosition <= maxScroll
        /\ 0 <= verticalScroll /\ verticalScroll <= maxVerticalScroll

\* C9: after any change of the filtered task set both scroll offsets are 0,
\* whatever wheel, slider, resize and filter events came before.
C9_Original_FilterChangeResetsOffsets ==
    (lastEvent.kind = "filter" /\ tasks # <<>> /\ lastEvent.commits >= 1
     /\ pendingEffects = {})
        => scrollPosition = 0 /\ verticalScroll = 0

Clamp(v, lo, hi) == IF v < lo THEN lo ELSE IF v > hi THEN hi ELSE v
Abs(v) == IF v < 0 THEN 0 - v ELSE v

-----------------------------------------------------------------------------
(* SpecDraw: drawChart as a function of the render it closes over, the     *)
(* container rectangle and the time zone, called once and then once more   *)
(* by the next render.                                                     *)

Day(n) == n * TicksPerDay      \* 00:00 UTC of day n; day 0 is 2024-01-01

\* Task 1 from 2024-01-05 to 2024-01-20, opened; task 2 from 2024-02-01,
\* no end, closed.
ExampleTasks ==
    <<MkTask(1, "t", "d", Day(4), Day(19), {}, {}, NoMilestone, "opened"),
      MkTask(2, "t", "d", Day(31), NoEnd, {}, {}, NoMilestone, "closed")>>

DrawLists == {<<>>, ExampleTasks, GenList(3), GenList(MaxRows)}
DrawRects ==
    {[width |-> w * Px, height |-> h * Px] : w \in {300, 800, 2000}, h \in {400, 600, 2400}}
DrawScrollXs == {0, 150 * Px}
DrawScrollYs == {0, 90 * Px, 500 * Px}
DrawMaxima == {0, 100 * Px}
TimeZones == {0 - 1, 0, 1}     \* UTC-6, UTC, UTC+6

InitDraw ==
    /\ tasks \in DrawLists
    /\ selectedTask = <<>>
    /\ selectedLabels = {} /\ excludedLabels = {} /\ selectedAssignees = {}
    /\ selectedMilestones = {}
    /\ showClosedIssues \in BOOLEAN
    /\ scrollPosition \in DrawScrollXs
    /\ verticalScroll \in DrawScrollYs
    /\ maxScroll = 0
    /\ maxVerticalScroll \in DrawMaxima
    /\ horizontalSliderValue = Frac(0, 1) /\ verticalSliderValue = Frac(0, 1)
    /\ statusLabels = {}
    /\ rect \in DrawRects
    /\ resizeClosure = [filteredTasks |-> <<>>, scrollPosition |-> 0,
                        verticalScroll |-> 0, maxVerticalScroll |-> 0]
    /\ pendingEffects = {}
    /\ lastEvent = [kind |-> "mount", commits |-> 0]
    /\ tz \in TimeZones /\ now = Day(120)
    /\ once = <<>> /\ twice = <<>> /\ stage = 0 /\ drawn = <<>>
    /\ IdleNet
    /\ mounted = TRUE /\ autoUpdateInterval = AUTO_UPDATE_INTERVALS.OFF
    /\ timers = 0 /\ effectTimer = FALSE
    /\ avatarCache \in {{}, {1}} /\ avatarLoads = [u \in AvatarUrls |-> 0]

\* One call drawChart(scrollPosition, verticalScroll) by the current render.
DrawCall(n) ==
    /\ stage = n
    /\ SetScrollState(drawChart(ScrollState, RenderClosure, rect))
    /\ drawn' = [pre |-> ScrollState,
                 painted |-> Painted(RenderClosure, rect, scrollPosition, verticalScroll)]
    /\ stage' = n + 1
    /\ avatarLoads' = StartLoads(avatarLoads, avatarCache, RenderClosure, rect,
                                 verticalScroll)
    /\ UNCHANGED <<tasks, selectedTask, filterVars, viewVars, netVars, once, twice,
                   envVars, mounted, autoUpdateInterval, timers, effectTimer,
                   avatarCache>>

FirstDraw == DrawCall(0)
NextDraw == DrawCall(1)

NextDrawStep == FirstDraw \/ NextDraw

SpecDraw == InitDraw /\ [][NextDrawStep]_vars

-----------------------------------------------------------------------------
(* Claims on SpecDraw                                                      *)

fixedColumnsWidth == avatarColumnWidth + infoColumnWidth

\* C11: for every non-empty filtered task set and every viewport size,
\* including a viewport larger than the content, the maxHorizontalScroll and
\* maxVerticalScroll a draw computes are both >= 0.
C11_MaximaNotNegative ==
    (stage >= 1 /\ drawn.painted.layout) => maxScroll >= 0 /\ maxVerticalScroll >= 0

\* A layout computed in a viewport wider and higher than the content.
C11_Witness ==
    /\ stage >= 1
    /\ drawn.painted.layout
    /\ filteredTasks # <<>>
    /\ totalDaysOf(filteredTasks, now, tz) * dayWidth < rect.width - fixedColumnsWidth
    /\ headerHeight + Len(filteredTasks) * taskHeight < rect.height - headerHeight
    /\ maxScroll = 0 /\ maxVerticalScroll = 0

C13_Original_ExampleBar ==
    (tasks = ExampleTasks /\ ~showClosedIssues /\ stage >= 1) =>
        /\ filteredTasks = <<ExampleTasks[1]>>
        /\ drawn.painted.layout
        /\ FloorDiv(drawn.painted.minDate + tz, TicksPerDay) = 0
        /\ drawn.painted.bars[1].painted =>
              /\ drawn.painted.bars[1].startX =
                    fixedColumnsWidth + 4 * dayWidth - drawn.pre.scrollPosition
              /\ drawn.painted.bars[1].endX =
                    fixedColumnsWidth + 19 * dayWidth - drawn.pre.scrollPosition

\* C14 as stated: the stored scroll and layout state is the same after
\* drawChart returns as before it was called.
C14_Original_DrawWritesNothing ==
    stage >= 1 =>
        /\ scrollPosition = drawn.pre.scrollPosition
        /\ verticalScroll = drawn.pre.verticalScroll
        /\ maxScroll = drawn.pre.maxScroll
        /\ maxVerticalScroll = drawn.pre.maxVerticalScroll
        /\ horizontalSliderValue = drawn.pre.horizontalSliderValue
        /\ verticalSliderValue = drawn.pre.verticalSliderValue

\* C14 amended: a draw call never writes offsetX or the horizontal slider
\* value; a draw that returns early writes nothing; a draw that computes a
\* layout stores the maxima it computed and, when the render's offsetY exceeds
\* the render's stored maxVerticalScroll, sets offsetY to that stored maximum
\* and the vertical slider value to (offsetY / maximum) * 100.
C14_DrawWritesMaximaAndVerticalClamp ==
    stage >= 1 =>
        LET pre == drawn.pre
        IN  /\ scrollPosition = pre.scrollPosition
            /\ horizontalSliderValue = pre.horizontalSliderValue
            /\ ~drawn.painted.layout =>
                  /\ verticalScroll = pre.verticalScroll
                  /\ maxScroll = pre.maxScroll
                  /\ maxVerticalScroll = pre.maxVerticalScroll
                  /\ verticalSliderValue = pre.verticalSliderValue
            /\ drawn.painted.layout =>
                  /\ maxScroll = ScrollMaxima(filteredTasks, rect).maxScroll
                  /\ maxVerticalScroll = ScrollMaxima(filteredTasks, rect).maxVerticalScroll
                  /\ IF pre.verticalScroll > pre.maxVerticalScroll
                     THEN /\ verticalScroll = pre.maxVerticalScroll
                          /\ verticalSliderValue =
                                Frac(pre.maxVerticalScroll * 100, pre.maxVerticalScroll)
                     ELSE /\ verticalScroll = pre.verticalScroll
                          /\ verticalSliderValue = pre.verticalSliderValue

\* A draw that stored new maxima, moved the vertical offset and left the
\* horizontal offset above the maximum it stored.
C14_Witness ==
    /\ stage >= 1
    /\ drawn.painted.layout
    /\ maxVerticalScroll # drawn.pre.maxVerticalScroll
    /\ verticalScroll # drawn.pre.verticalScroll
    /\ scrollPosition > maxScroll

-----------------------------------------------------------------------------
(* Lifecycle: the auto-update interval, unmount, the avatar loader and the *)
(* effect on the tasks prop: part_003:106, 133-137, 181-230, 765-796, 1248 *)

\* The interval Select (part_003:1247-1248); the auto-update effect re-runs.
SetAutoUpdateInterval(value) ==
    /\ mounted
    /\ pendingEffects = {}
    /\ selectedTask = <<>>
    /\ value # autoUpdateInterval
    /\ autoUpdateInterval' = value
    /\ pendingEffects' = {"autoUpdate"}
    /\ lastEvent' = [kind |-> "interval", commits |-> 0]
    /\ UNCHANGED <<tasks, selectedTask, filterVars, scrollVars, statusLabels, rect,
                   resizeClosure, netVars, pureVars, envVars, mounted, timers,
                   effectTimer, avatarCache, avatarLoads>>

\* React unmounts the chart: every effect's cleanup runs, that of the
\* auto-update effect clears the interval it holds (part_003:229), that of the
\* scroll effect removes the resize listener (part_003:1069).  drawAvatar
\* registers no cleanup: the Images it created keep their onload.
Unmount ==
    /\ mounted
    /\ pendingEffects = {}
    /\ mounted' = FALSE
    /\ timers' = IF effectTimer THEN timers - 1 ELSE timers
    /\ effectTimer' = FALSE
    /\ lastEvent' = [kind |-> "unmount", commits |-> 0]
    /\ UNCHANGED <<tasks, selectedTask, filterVars, scrollVars, statusLabels, rect,
                   resizeClosure, pendingEffects, netVars, pureVars, envVars,
                   autoUpdateInterval, avatarCache, avatarLoads>>

\* An onload that drops every other entry when it stores its image.
ImageLoaded_EvictsOthers(url) ==
    /\ avatarLoads[url] > 0
    /\ avatarLoads' = [avatarLoads EXCEPT ![url] = @ - 1]
    /\ avatarCache' = {url}
    /\ lastEvent' = [kind |-> "imageLoaded", commits |-> 0, url |-> url,
                     mounted |-> mounted]
    /\ UNCHANGED <<tasks, selectedTask, filterVars, scrollVars, statusLabels, rect,
                   resizeClosure, pendingEffects, netVars, pureVars, envVars,
                   mounted, autoUpdateInterval, timers, effectTimer>>

\* img.onload of drawAvatar (part_003:787-794): the browser has loaded one of
\* the pending Images of url; the callback stores it in the Map and paints it
\* on the canvas context it closed over, mounted or not.
ImageLoaded(url) ==
    /\ avatarLoads[url] > 0
    /\ avatarLoads' = [avatarLoads EXCEPT ![url] = @ - 1]
    /\ avatarCache' = avatarCache \cup {url}
    /\ lastEvent' = [kind |-> "imageLoaded", commits |-> 0, url |-> url,
                     mounted |-> mounted]
    /\ UNCHANGED <<tasks, selectedTask, filterVars, scrollVars, statusLabels, rect,
                   resizeClosure, pendingEffects, netVars, pureVars, envVars,
                   mounted, autoUpdateInterval, timers, effectTimer>>

\* App hands a new tasks array to the chart (App.tsx setTasks in
\* handleConnect): the effect on [initialTasks] (part_003:133-137) clears the
\* avatar cache and calls setTasks(initialTasks).
InitialTasksChange(initialTasks) ==
    /\ mounted
    /\ pendingEffects = {}
    /\ selectedTask = <<>>      \* the modal's overlay covers the connect form
    /\ avatarCache' = {}
    /\ tasks' = initialTasks
    /\ pendingEffects' = {"filteredTasks"}
    /\ lastEvent' = [kind |-> "initialTasks", commits |-> 0]
    /\ UNCHANGED <<selectedTask, filterVars, scrollVars, statusLabels, rect,
                   resizeClosure, netVars, pureVars, envVars, mounted,
                   autoUpdateInterval, timers, effectTimer, avatarLoads>>

\* The continuation of an awaited request on an unmounted chart: its setState
\* calls are dropped by React.
ResponseDropped(r) ==
    /\ ~mounted
    /\ r \in requests /\ r.status \in {"ok", "err"}
    /\ requests' = requests \ {r}
    /\ lastEvent' = [kind |-> "dropped", commits |-> 0]
    /\ UNCHANGED <<tasks, selectedTask, filterVars, scrollVars, statusLabels, rect,
                   resizeClosure, pendingEffects, isUpdating, credentials, remote,
                   nextSeq, pureVars, envVars, lifeVars>>

-----------------------------------------------------------------------------
(* SpecLife: the mounted chart of a three-task project whose server holds  *)
(* a different list; interval changes, polls, redraws, image loads, new    *)
(* task sources and unmount.                                               *)

LifeLists == {GenList(2), GenList(3)}
LifeIntervals ==
    {AUTO_UPDATE_INTERVALS.OFF, AUTO_UPDATE_INTERVALS.SEC_10, AUTO_UPDATE_INTERVALS.MIN_1}

\* loadInitialData (part_003:140-178) has set the updating flag and awaits
\* its GET, or has already returned.
InitLife ==
    /\ tasks = GenList(3)
    /\ remote = GenList(2)
    /\ selectedTask = <<>>
    /\ credentials = TRUE
    /\ \E loading \in BOOLEAN :
          /\ isUpdating = loading
          /\ nextSeq = (IF loading THEN 1 ELSE 0)
          /\ requests = (IF loading THEN {[Request("get", 0, "") EXCEPT !.seq = 1]} ELSE {})
    /\ IdleFilter /\ IdleEnv /\ IdlePure
    /\ MountedChart([width |-> 800 * Px, height |-> 600 * Px])

IntervalChange == \E v \in LifeIntervals : SetAutoUpdateInterval(v)
AvatarLoaded == \E u \in AvatarUrls : ImageLoaded(u)
TaskSourceChange == \E l \in LifeLists : InitialTasksChange(l)
LateResponse == \E r \in requests : ResponseDropped(r)

NextLife ==
    \/ Commit
    \/ Click
    \/ CloseModal
    \/ IntervalChange
    \/ TimerTick
    \/ GetServed
    \/ RequestFailed
    \/ GetDone
    \/ GetFailed
    \/ StatusLabels
    \/ AvatarLoaded
    \/ TaskSourceChange
    \/ Unmount
    \/ LateResponse

SpecLife == InitLife /\ [][NextLife]_vars

-----------------------------------------------------------------------------
(* Claims on SpecLife                                                      *)

\* C15: at every moment at most one auto-refresh timer is installed; a
\* committed interval change leaves exactly the new timer, the interval 'off'
\* leaves none, and after unmount no timer remains and no poll is started.
C15_AtMostOneTimer ==
    /\ timers <= 1
    /\ (mounted /\ pendingEffects = {}) =>
          timers = (IF autoUpdateInterval = AUTO_UPDATE_INTERVALS.OFF THEN 0 ELSE 1)
    /\ ~mounted => (timers = 0 /\ lastEvent.kind # "tick")

\* The interval changed from one minute to ten seconds, committed.
C15_Witness ==
    /\ lastEvent.kind = "interval"
    /\ lastEvent.commits = 1
    /\ autoUpdateInterval = AUTO_UPDATE_INTERVALS.SEC_10
    /\ timers = 1

\* C16: after the chart is unmounted no avatar image-load callback writes to
\* the avatar cache.
C16_Original_NoCacheWriteAfterUnmount ==
    [][~mounted => avatarCache' = avatarCache]_vars

\* C17: for any avatar URL at most one image load is in flight at a time.
C17_Original_OneLoadPerUrl ==
    \A u \in AvatarUrls : avatarLoads[u] <= 1

\* C18: an entry of the avatar cache is removed only by the clear-all of a
\* task-source change; a poll that replaces the task list removes no entry and
\* no entry is removed individually.
C18_CacheOnlyClearedBySourceChange ==
    [][(avatarCache \ avatarCache' # {})
          => (lastEvent'.kind = "initialTasks" /\ avatarCache' = {})]_vars

\* A poll replaced the task list while the cache held both avatars.
C18_Witness ==
    /\ lastEvent.kind = "getResolved"
    /\ tasks # lastEvent.tasks
    /\ avatarCache = AvatarUrls

-----------------------------------------------------------------------------
(* SpecStorage: the useState initialisers that read localStorage           *)
(* (part_003:107-131 and 250-285).  A text is a sequence of characters; an *)
(* entry is absent (getItem returns null) or holds a text.                 *)

StorageKeys ==
    {"selectedLabels", "excludedLabels", "statusLabels", "selectedAssignees",
     "selectedMilestones", "showClosedIssues", "autoUpdateInterval"}
ListKeys ==
    {"selectedLabels", "excludedLabels", "statusLabels", "selectedAssignees",
     "selectedMilestones"}

Absent == [present |-> FALSE, text |-> <<>>]
Entry(text) == [present |-> TRUE, text |-> text]

\* Texts an entry can hold: written by the save effects (part_003:232-235,
\* 287-310), or damaged.
StoredTexts ==
    { <<>>,
      <<"[", "]">>,
      <<"[", "1", "]">>,
      <<"t", "r", "u", "e">>,
      <<"f", "a", "l", "s", "e">>,
      <<"n", "u", "l", "l">>,
      <<"6", "0", "0", "0", "0">>,
      <<"1", "0", "a", "b", "c">>,
      <<"a", "b", "c">>,
      <<"[", "1">> }

MaxDamaged == 2

DigitChars == {"0", "1", "2", "3", "4", "5", "6", "7", "8", "9"}
DigitValue(c) ==
    CASE c = "0" -> 0 [] c = "1" -> 1 [] c = "2" -> 2 [] c = "3" -> 3
      [] c = "4" -> 4 [] c = "5" -> 5 [] c = "6" -> 6 [] c = "7" -> 7
      [] c = "8" -> 8 [] c = "9" -> 9

RECURSIVE DigitPrefix(_, _, _)
\* value of the longest run of decimal digits of text from position i on
DigitPrefix(text, i, acc) ==
    IF i > Len(text) \/ text[i] \notin DigitChars
    THEN [next |-> i, value |-> acc]
    ELSE DigitPrefix(text, i + 1, acc * 10 + DigitValue(text[i]))

RECURSIVE SkipSpace(_, _)
SkipSpace(text, i) ==
    IF i <= Len(text) /\ text[i] = " " THEN SkipSpace(text, i + 1) ELSE i

\* parseInt(text): leading white space, an optional sign, then the longest run
\* of digits; NaN when there is no digit.
parseInt(text) ==
    LET i == SkipSpace(text, 1)
        signed == i <= Len(text) /\ text[i] \in {"-", "+"}
        j == IF signed THEN i + 1 ELSE i
        d == DigitPrefix(text, j, 0)
    IN  IF d.next = j THEN NotANumber
        ELSE IF signed /\ text[i] = "-" THEN 0 - d.value ELSE d.value

\* JSON.parse on the texts above: the value, or a SyntaxError.
JSONParse(text) ==
    LET d == DigitPrefix(text, 1, 0)
    IN  CASE text = <<"[", "]">> -> [threw |-> FALSE, type |-> "array", value |-> <<>>]
          [] text = <<"[", "1", "]">> -> [threw |-> FALSE, type |-> "array", value |-> <<1>>]
          [] text = <<"t", "r", "u", "e">> -> [threw |-> FALSE, type |-> "boolean", value |-> TRUE]
          [] text = <<"f", "a", "l", "s", "e">> -> [threw |-> FALSE, type |-> "boolean", value |-> FALSE]
          [] text = <<"n", "u", "l", "l">> -> [threw |-> FALSE, type |-> "null", value |-> 0]
          [] Len(text) > 0 /\ d.next = Len(text) + 1 ->
                 [threw |-> FALSE, type |-> "number", value |-> d.value]
          [] OTHER -> [threw |-> TRUE, type |-> "undefined", value |-> 0]

\* A string is truthy unless it is null or empty.
Truthy(entry) == entry.present /\ entry.text # <<>>

\* try { cached ? JSON.parse(cached) : dflt } catch { dflt }
JsonInitialState(entry, dflt) ==
    IF ~Truthy(entry) THEN dflt
    ELSE LET parsed == JSONParse(entry.text)
         IN  IF parsed.threw THEN dflt
             ELSE [type |-> parsed.type, value |-> parsed.value]

\* saved ? parseInt(saved) : AUTO_UPDATE_INTERVALS.MIN_1   (no try, no check)
IntervalInitialState(entry) ==
    IF Truthy(entry) THEN parseInt(entry.text) ELSE AUTO_UPDATE_INTERVALS.MIN_1

EmptyList == [type |-> "array", value |-> <<>>]
False == [type |-> "boolean", value |-> FALSE]

DefaultState(key) ==
    IF key \in ListKeys THEN EmptyList
    ELSE IF key = "showClosedIssues" THEN False
    ELSE [type |-> "number", value |-> AUTO_UPDATE_INTERVALS.MIN_1]

InitialState(storage, key) ==
    IF key \in ListKeys THEN JsonInitialState(storage[key], EmptyList)
    ELSE IF key = "showClosedIssues" THEN JsonInitialState(storage[key], False)
    ELSE [type |-> "number", value |-> IntervalInitialState(storage[key])]

\* once is localStorage, twice the initial state of the seven hooks.
InitStorage ==
    /\ once \in {st \in [StorageKeys -> {Absent} \cup {Entry(t) : t \in StoredTexts}] :
                    Cardinality({k \in StorageKeys : st[k].present}) <= MaxDamaged}
    /\ twice = <<>>
    /\ stage = 0
    /\ drawn = <<>>
    /\ tasks = <<>>
    /\ selectedTask = <<>>
    /\ IdleFilter /\ IdleScroll /\ IdleView /\ IdleNet /\ IdleEnv /\ IdleLife

\* The first render of GanttChart: every lazy initialiser runs once.
FirstRender ==
    /\ stage = 0
    /\ twice' = [k \in StorageKeys |-> InitialState(once, k)]
    /\ autoUpdateInterval' = IntervalInitialState(once["autoUpdateInterval"])
    /\ stage' = 1
    /\ lastEvent' = [kind |-> "firstRender", commits |-> 0]
    /\ UNCHANGED <<tasks, selectedTask, filterVars, scrollVars, statusLabels, rect,
                   resizeClosure, pendingEffects, netVars, once, drawn, envVars,
                   mounted, timers, effectTimer, avatarCache, avatarLoads>>

NextStorage == FirstRender

SpecStorage == InitStorage /\ [][NextStorage]_vars

\* An entry holds what the save effect of its key writes: a JSON array, a JSON
\* boolean, the decimal text of one of the intervals.
WellFormed(key, entry) ==
    /\ entry.present
    /\ IF key = "autoUpdateInterval"
       THEN \E n \in {AUTO_UPDATE_INTERVALS[i] : i \in DOMAIN AUTO_UPDATE_INTERVALS} :
               DigitPrefix(entry.text, 1, 0) = [next |-> Len(entry.text) + 1, value |-> n]
       ELSE /\ ~JSONParse(entry.text).threw
            /\ JSONParse(entry.text).type = DefaultState(key).type

\* C19: every persisted entry that is missing or holds a corrupt value yields
\* its default (empty list, false, the one-minute interval).
C19_Original_CorruptYieldsDefault ==
    stage = 1 =>
        \A k \in StorageKeys :
            ~WellFormed(k, once[k]) => twice[k] = DefaultState(k)

-----------------------------------------------------------------------------
(* SpecConnect: the two handleConnect of App.tsx (150-235 and 792-846)     *)
(* against the backend route GET /gitlab/issues (part_000:251-385).        *)
(* once is the input: the project ids typed in, the projects whose GitLab  *)
(* request fails; twice is App's state after the connect.                  *)

MaxProjects == 3
IssuesPerProject == 2

\* getProjectIssues (part_000:472-500): the issues of one project, or the
\* rejection of its axios.get.
getProjectIssues(id, failing) ==
    [threw |-> id \in failing,
     issues |-> IF id \in failing THEN <<>>
                ELSE [j \in 1..IssuesPerProject |->
                         [GenTask(id + MaxProjects * (j - 1)) EXCEPT !.projectId = id]]]

RECURSIVE Flat(_)
Flat(lists) ==
    IF lists = <<>> THEN <<>> ELSE Head(lists) \o Flat(Tail(lists))

\* The route: Promise.all over projectId.split(','); one rejection rejects
\* the whole and the catch answers with an error status (part_000:291-385).
GetIssuesRoute(projectIds, failing) ==
    LET results == [k \in 1..Len(projectIds) |-> getProjectIssues(projectIds[k], failing)]
    IN  IF \E k \in 1..Len(projectIds) : results[k].threw
        THEN [ok |-> FALSE, data |-> <<>>]
        ELSE [ok |-> TRUE, data |-> Flat([k \in 1..Len(projectIds) |-> results[k].issues])]

RECURSIVE SortByStart(_)
\* Array.prototype.sort by start date (stable).
SortByStart(list) ==
    IF list = <<>> THEN <<>>
    ELSE LET rest == SortByStart(Tail(list))
             h == Head(list)
             before == SelectSeq(rest, LAMBDA t : t.start < h.start)
             after == SelectSeq(rest, LAMBDA t : t.start >= h.start)
         IN  before \o <<h>> \o after

RECURSIVE LoadEachProject(_, _)
\* The loop of App.tsx:184-224: one request per project; a failing request
\* is logged and the loop goes on.
LoadEachProject(projectIds, failing) ==
    IF projectIds = <<>> THEN <<>>
    ELSE LET response == GetIssuesRoute(<<Head(projectIds)>>, failing)
             projectTasks == IF response.ok THEN response.data ELSE <<>>
         IN  projectTasks \o LoadEachProject(Tail(projectIds), failing)

\* What GitLab rejects: the projects of input.failing, or every request when
\* the host is unreachable or the token is invalid.
Rejected(input) ==
    IF input.gitlab = "ok" THEN input.failing ELSE 1..MaxProjects

\* GET /gitlab/test (part_000:196-199) answers ok without a request to
\* GitLab; it fails only when the proxy itself (input.testOk) is down.
TestRoute(input) == input.testOk

\* handleConnect of App.tsx:150-235.  Every issue of the route carries
\* start = created_at, so the filter on task.start keeps all of them.
handleConnect_Loop(input) ==
    IF ~TestRoute(input)
    THEN [connected |-> FALSE, error |-> TRUE, tasks |-> <<>>]
    ELSE [connected |-> TRUE, error |-> FALSE,
          tasks |-> SortByStart(LoadEachProject(input.projectIds, Rejected(input)))]

\* handleConnect of App.tsx:792-846: setTasks([]), then one request with the
\* ids joined by commas.
handleConnect_Joined(input) ==
    LET response == GetIssuesRoute(input.projectIds, Rejected(input))
    IN  IF input.testOk /\ response.ok
        THEN [connected |-> TRUE, error |-> FALSE, tasks |-> response.data]
        ELSE [connected |-> FALSE, error |-> TRUE, tasks |-> <<>>]

\* App renders the chart (App.tsx:557-571).
ChartRendered(app) == app.connected /\ Len(app.tasks) > 0

InitConnect ==
    /\ once \in [projectIds : IncSeqs(MaxProjects, MaxProjects) \ {<<>>},
                 failing : SUBSET (1..MaxProjects),
                 gitlab : {"ok", "unreachable", "invalidToken"},
                 testOk : BOOLEAN]
    /\ twice = <<>>
    /\ stage = 0
    /\ drawn = <<>>
    /\ tasks = <<>>
    /\ selectedTask = <<>>
    /\ IdleFilter /\ IdleScroll /\ IdleView /\ IdleNet /\ IdleEnv /\ IdleLife

Connected(result, how) ==
    /\ stage = 0
    /\ twice' = result
    /\ tasks' = result.tasks
    /\ stage' = 1
    /\ lastEvent' = [kind |-> how, commits |-> 0]
    /\ UNCHANGED <<selectedTask, filterVars, scrollVars, statusLabels, rect,
                   resizeClosure, pendingEffects, netVars, once, drawn, envVars,
                   lifeVars>>

ConnectLoop == Connected(handleConnect_Loop(once), "connectLoop")
ConnectJoined == Connected(handleConnect_Joined(once), "connectJoined")

\* The chart that App renders after the connect runs loadInitialData, and
\* later its polls (part_003:140-178, 189-223): one GET with the stored project
\* ids, and setTasks(response.data) as it arrives.
ChartLoad ==
    /\ stage = 1
    /\ ChartRendered(twice)
    /\ LET response == GetIssuesRoute(once.projectIds, Rejected(once))
       IN  tasks' = IF once.testOk /\ response.ok THEN response.data ELSE tasks
    /\ stage' = 2
    /\ lastEvent' = [kind |-> "chartLoad", commits |-> 0]
    /\ UNCHANGED <<selectedTask, filterVars, scrollVars, statusLabels, rect,
                   resizeClosure, pendingEffects, netVars, once, twice, drawn,
                   envVars, lifeVars>>

NextConnect ==
    \/ ConnectLoop
    \/ ConnectJoined
    \/ ChartLoad

SpecConnect == InitConnect /\ [][NextConnect]_vars

Range(list) == {list[k] : k \in 1..Len(list)}

\* C20: when a connect fetches several projects and one of them fails while
\* another succeeds, the connect succeeds and the merged list holds exactly the
\* tasks of the projects that succeeded.
C20_Original_FailingProjectSkipped ==
    LET ids == Range(once.projectIds)
    IN  (/\ stage = 1
         /\ Cardinality(ids) >= 2
         /\ ids \cap once.failing # {}
         /\ ids \ once.failing # {}
         /\ once.testOk /\ once.gitlab = "ok")
        => /\ twice.connected
           /\ Range(twice.tasks) =
                  UNION {Range(getProjectIssues(id, {}).issues) : id \in ids \ once.failing}

\* The same for the connect that loops over the projects.
C20_LoopSkipsFailingProject ==
    lastEvent.kind = "connectLoop" => C20_Original_FailingProjectSkipped

\* C21: a connect attempt that fails because the GitLab host is unreachable
\* or the token is invalid ends with the error banner set and connected false,
\* and no chart is rendered from it.
C21_Original_FailedConnectSetsBanner ==
    (stage = 1 /\ once.testOk /\ once.gitlab # "ok")
        => (twice.error /\ ~twice.connected /\ ~ChartRendered(twice))

-----------------------------------------------------------------------------
(* SpecDates: drawChart on task lists that hold unparseable dates.         *)

DateLists ==
    { <<GenTask(1), [GenTask(2) EXCEPT !.start = InvalidDate], GenTask(3)>>,
      <<GenTask(1), [GenTask(2) EXCEPT !.end = InvalidDate]>>,
      <<[GenTask(3) EXCEPT !.start = InvalidDate]>>,
      <<[GenTask(1) EXCEPT !.start = InvalidDate, !.end = InvalidDate]>>,
      GenList(3) }

InitDates ==
    /\ tasks \in DateLists
    /\ selectedTask = <<>>
    /\ IdleFilter
    /\ scrollPosition \in DrawScrollXs
    /\ verticalScroll \in DrawScrollYs
    /\ maxScroll = 0
    /\ maxVerticalScroll \in DrawMaxima
    /\ horizontalSliderValue = Frac(0, 1) /\ verticalSliderValue = Frac(0, 1)
    /\ statusLabels = {}
    /\ rect \in DrawRects
    /\ resizeClosure = [filteredTasks |-> <<>>, scrollPosition |-> 0,
                        verticalScroll |-> 0, maxVerticalScroll |-> 0]
    /\ pendingEffects = {}
    /\ lastEvent = [kind |-> "mount", commits |-> 0]
    /\ tz \in TimeZones /\ now = Day(120)
    /\ IdlePure /\ IdleNet
    /\ mounted = TRUE /\ autoUpdateInterval = AUTO_UPDATE_INTERVALS.OFF
    /\ timers = 0 /\ effectTimer = FALSE
    /\ avatarCache = {} /\ avatarLoads = [u \in AvatarUrls |-> 0]

SpecDates == InitDates /\ [][NextDrawStep]_vars

\* C22: a task whose start or end date is unparseable never produces NaN
\* geometry: the date range is computed without it, and the startX and endX of
\* every bar that is drawn are finite numbers.
C22_Original_NoNaNGeometry ==
    (stage >= 1 /\ drawn.painted.layout) =>
        /\ drawn.painted.minDate # InvalidDate
        /\ \A k \in 1..Len(drawn.painted.bars) :
              drawn.painted.bars[k].painted => drawn.painted.bars[k].nan = {}

\* The part of C22 on the date range: the range of a layout is computed from
\* the parseable dates only.
C22_DateRangeIsFinite ==
    (stage >= 1 /\ drawn.painted.layout) =>
        /\ InvalidDate \notin ChartDates(filteredTasks, now)
        /\ drawn.painted.minDate = minDateOf(filteredTasks, now, tz)
        /\ totalDaysOf(filteredTasks, now, tz) > 0

-----------------------------------------------------------------------------
(* SpecFacet: the uniqueAssignees facet (part_003:329-341) as a function   *)
(* of the assignees arrays of the task list.  once is the list of the      *)
(* tasks' assignees arrays, twice the facet.                               *)

FacetTasks == 2

\* Assignee objects as the API delivers them; id 0 and the empty name are
\* the falsy values the filter drops, "" is a missing avatar_url.
AssigneeNames == <<"ann", "bob">>
AssigneeObjects ==
    [id : 0..2, name : {"", "ann", "bob"}, avatar_url : {"", "u1"}]
AssigneeArrays == {<<>>} \cup {<<a>> : a \in AssigneeObjects}

RECURSIVE SeqsUpTo(_, _)
SeqsUpTo(S, n) ==
    IF n = 0 THEN {<<>>}
    ELSE SeqsUpTo(S, n - 1) \cup {Append(q, x) : q \in SeqsUpTo(S, n - 1), x \in S}

\* JSON.stringify({id, name, avatar_url: avatar_url || ''}) and JSON.parse of
\* it: the text is determined by, and gives back, the three fields.
AssigneeKey(a) == [id |-> a.id, name |-> a.name, avatar_url |-> a.avatar_url]

RECURSIVE FirstOccurrences(_, _)
\* Array.from(new Set(list)): the distinct elements in order of first occurrence
FirstOccurrences(list, seen) ==
    IF list = <<>> THEN <<>>
    ELSE IF Head(list) \in seen THEN FirstOccurrences(Tail(list), seen)
    ELSE <<Head(list)>> \o FirstOccurrences(Tail(list), seen \cup {Head(list)})

\* a.name.localeCompare(b.name) < 0 on the names of the model
NameRank(name) == CHOOSE k \in 1..Len(AssigneeNames) : AssigneeNames[k] = name

RECURSIVE SortByName(_)
SortByName(list) ==
    IF list = <<>> THEN <<>>
    ELSE LET rest == SortByName(Tail(list))
             h == Head(list)
             before == SelectSeq(rest, LAMBDA a : NameRank(a.name) < NameRank(h.name))
             after == SelectSeq(rest, LAMBDA a : NameRank(a.name) >= NameRank(h.name))
         IN  before \o <<h>> \o after

\* uniqueAssignees with the objects it holds (the ids alone are above).
uniqueAssigneeObjects(assigneesOfTasks) ==
    LET all == Flat(assigneesOfTasks)
        kept == SelectSeq(all, LAMBDA a : a.id # 0 /\ a.name # "")
        keys == [k \in 1..Len(kept) |-> AssigneeKey(kept[k])]
    IN  SortByName(FirstOccurrences(keys, {}))

InitFacet ==
    /\ once \in SeqsUpTo(AssigneeArrays, FacetTasks)
    /\ twice = <<>>
    /\ stage = 0
    /\ drawn = <<>>
    /\ tasks = <<>>
    /\ selectedTask = <<>>
    /\ IdleFilter /\ IdleScroll /\ IdleView /\ IdleNet /\ IdleEnv /\ IdleLife

ComputeFacet ==
    /\ stage = 0
    /\ twice' = uniqueAssigneeObjects(once)
    /\ stage' = 1
    /\ lastEvent' = [kind |-> "uniqueAssignees", commits |-> 0]
    /\ UNCHANGED <<tasks, selectedTask, filterVars, scrollVars, statusLabels, rect,
                   resizeClosure, pendingEffects, netVars, once, drawn, envVars,
                   lifeVars>>

NextFacet == ComputeFacet

SpecFacet == InitFacet /\ [][NextFacet]_vars

\* C23: the uniqueAssignees facet contains each assignee id at most once, also
\* when the same id appears with different names or avatar URLs in different
\* tasks, and is ordered by name.
C23_Original_FacetUniqueById ==
    stage = 1 =>
        /\ \A i, j \in 1..Len(twice) : twice[i].id = twice[j].id => i = j
        /\ \A i, j \in 1..Len(twice) :
              i < j => NameRank(twice[i].name) <= NameRank(twice[j].name)

\* What the facet does guarantee: no object twice, every usable assignee of the
\* list once, in name order.
C23_FacetUniqueByObject ==
    stage = 1 =>
        /\ \A i, j \in 1..Len(twice) : twice[i] = twice[j] => i = j
        /\ Range(twice) = {a \in Range(Flat(once)) : a.id # 0 /\ a.name # ""}
        /\ \A i, j \in 1..Len(twice) :
              i < j => NameRank(twice[i].name) <= NameRank(twice[j].name)

-----------------------------------------------------------------------------
(* SpecModal: the edits the task modal issues on its own (start date, due  *)
(* date, milestone) on the chart of Init, with auto-refresh.               *)

ModalDates == {Day(2), Day(40)}
ModalMilestones == {NoMilestone, 1, 2}

StartDateEdit == \E d \in ModalDates : HandleDateChange("start", d)
DueDateEdit == \E d \in ModalDates \cup {NoEnd} : HandleDateChange("end", d)
MilestoneEdit == \E m \in ModalMilestones : HandleMilestoneChange(m)
ModalPutDone == \E r \in requests : ModalPutSettled(r)

NextModal ==
    \/ Click
    \/ CloseModal
    \/ StartDateEdit
    \/ DueDateEdit
    \/ MilestoneEdit
    \/ PutServed
    \/ RequestFailed
    \/ ModalPutDone
    \/ TimerTick
    \/ GetServed
    \/ GetDone
    \/ GetFailed
    \/ Commit

SpecModal == Init /\ [][NextModal]_vars

\* C24: after a start-date, due-date or milestone edit made in the task modal
\* whose remote update succeeded, the in-memory task of the chart carries the
\* new value without waiting for a refresh.
C24_Original_ModalEditShownAtOnce ==
    (lastEvent.kind = "modalPutSettled" /\ lastEvent.req.status = "ok"
     /\ FindTask(tasks, lastEvent.req.taskId) # <<>>)
        => FindTask(tasks, lastEvent.req.taskId)[1][lastEvent.req.field]
              = lastEvent.req.value

-----------------------------------------------------------------------------
(* Further claims on Spec                                                  *)

\* C25: within one open task modal label edits accumulate: the label list sent
\* when a label is added holds every label the in-memory task has at that
\* moment (those added before included) and the added one.
C25_Original_LabelEditsAccumulate ==
    (/\ lastEvent.kind = "edit" /\ lastEvent.req.field = "labels" /\ lastEvent.issued
     /\ selectedTask # <<>>
     /\ selectedTask[1].labels \subseteq lastEvent.req.labels
     /\ selectedTask[1].labels # lastEvent.req.labels)
        => FieldOf(tasks, lastEvent.req.taskId, "labels") \subseteq lastEvent.req.labels

\* C27: when a label edit completes successfully the value stored remotely
\* equals the value shown in the in-memory task, also when the value sent is
\* empty: removing the last label of a task clears its labels remotely.
C27_Original_EmptyValueAppliedRemotely ==
    (/\ lastEvent.kind = "putResolved"
     /\ lastEvent.req.field = "labels"
     /\ lastEvent.req.labels = {}
     /\ requests = {})
        => /\ FieldOf(tasks, lastEvent.req.taskId, "labels") = {}
           /\ FieldOf(remote, lastEvent.req.taskId, "labels")
                 = FieldOf(tasks, lastEvent.req.taskId, "labels")

-----------------------------------------------------------------------------
(* Further claims on SpecConnect                                           *)

\* C30: whenever the chart shows tasks, the in-memory task list is ordered by
\* start ascending, after the connect and after every load or poll of the
\* chart that replaces the list.
C30_Original_ListOrderedByStart ==
    (stage >= 1 /\ tasks # <<>>)
        => \A i, j \in 1..Len(tasks) : i < j => tasks[i].start <= tasks[j].start

\* The same for the list the looping connect hands to the chart.
C30_LoopConnectSorts ==
    (stage = 1 /\ lastEvent.kind = "connectLoop") => C30_Original_ListOrderedByStart

-----------------------------------------------------------------------------
(* Further claims on SpecLife                                              *)

\* C26: invoking the modal's close action always clears the selection (and so
\* re-enables wheel scrolling), also when the selected task is no longer in
\* the task list because an auto-refresh replaced the list.
C26_Original_CloseClearsSelection ==
    lastEvent.kind = "close" => selectedTask = <<>>

-----------------------------------------------------------------------------
(* Further claims on SpecScroll                                            *)

\* C28: while the filtered task set is empty both scroll maxima are 0, and
\* every wheel or slider event leaves both scroll offsets at 0, also when the
\* set became empty after a larger set had been laid out.
C28_Original_EmptySetHasNoScroll ==
    (filteredTasks = <<>> /\ pendingEffects = {})
        => /\ maxScroll = 0 /\ maxVerticalScroll = 0
           /\ scrollPosition = 0 /\ verticalScroll = 0

\* C29: at most one task-list fetch issued by the chart (the initial load or
\* a poll) is in flight at any time, and while the chart is mounted the
\* updating flag is true exactly while a fetch is pending.
C29_OneFetchInFlight ==
    /\ Cardinality({r \in requests : r.kind = "get"}) <= 1
    /\ mounted => (isUpdating <=> \E r \in requests : r.kind = "get")

\* The fetch of a poll is pending, the effect has re-installed the timer, and
\* a further request could still be issued.
C29_Witness ==
    /\ lastEvent.kind = "tick" /\ lastEvent.commits >= 1
    /\ mounted /\ pendingEffects = {} /\ timers = 1
    /\ nextSeq < MaxRequests
    /\ isUpdating
    /\ \E r \in requests : r.kind = "get" /\ r.status = "sent"

====
